---- MODULE Spec2Model ----
(***************************************************************************)
(* The finalize engine of the explorer: finalize_block replays every       *)
(* confirmed transaction of a block (finalize_deploy / finalize_execute),  *)
(* compares the operations it derived with the expected ones and applies   *)
(* them to mapping storage (execute_operations).                           *)
(*                                                                         *)
(* build_async_order traces the call graph of an execution into the order  *)
(* of its finalize scopes (TraceSpec); get_mapping_value reads a mapping    *)
(* through the process-wide cache (RaceSpec); preview_finalize_route runs a *)
(* finalize scope for a client without keeping its effects (PreviewSpec).   *)
(*                                                                         *)
(* Source: src/interpreter/interpreter.py, src/api/execute_routes.py.  The  *)
(* instruction interpreter                                                  *)
(* (interpreter.finalizer.execute_finalizer) is an external collaborator: it *)
(* is modelled by its contract, as a nondeterministic producer of          *)
(* operations that writes the cache it is allowed to write.                *)
(***************************************************************************)
EXTENDS Integers, Sequences, FiniteSets, TLC

\* ------------------------------------------------------------------ bounds
\* Longest block (number of confirmed transactions) that is replayed.
MaxTxs == 2
\* Most operations one call of the instruction interpreter returns.
MaxOps == 1

\* ------------------------------------------------------------ identifiers
\* Mapping ids (hash of program id and mapping name).
MappingIds == {"m1", "m2"}
\* The mappings, among them, that the replayed finalize scopes write.
WrittenMappingIds == {"m1"}
\* Key ids that occur in expected operations; the replayed scopes write WrittenKeyIds.
KeyIds == {"k1", "k2"}
WrittenKeyIds == {"k1"}
\* Value ids that occur in expected operations; the replayed scopes write
\* WrittenValueIds.
ValueIds == {"v1", "v2"}
WrittenValueIds == {"v1"}
\* A field an operation kind does not carry, and an absent key.
NoId == "-"
\* Transition ids and the transition lists of an execution.
TransitionIds == {"t1", "t2"}
TransitionLists == {<<"t1">>, <<"t2", "t1">>}
\* Instruction descriptions an ExecuteError carries.
Instructions == {"assert.eq"}
\* Mapping declarations of a deployed program, in declaration order.
MappingLists == {<<>>, <<"m1">>, <<"m2">>, <<"m1", "m2">>, <<"m2", "m1">>}

\* FinalizeOperation.Type
OpTypes == {"InitializeMapping", "UpdateKeyValue", "RemoveKeyValue", "RemoveMapping"}

\* ----------------------------------------------------------------- state
VARIABLES
    storage,        \* committed mapping storage: mapping id -> key id -> value id
    cache,          \* global_mapping_cache: mapping id -> [in, kv]
    pc,             \* position of finalize_block
    reject_reasons, \* finalize_block's result list so far
    fault,          \* the exception that left finalize_block
    ct,             \* the confirmed transaction being finalized
    operations,     \* finalize_execute / finalize_deploy: operations
    reject_reason,  \* finalize_execute / finalize_deploy: reject_reason
    local,          \* finalize_execute: local_mapping_cache
    calls,          \* history: the interpreter calls of this transaction
    caught,         \* history: the ExecuteError caught at line 191
    expected,       \* expected_operations the validation compared
    applied,        \* history: operations execute_operations applied for this transaction
    annotations,    \* call graph: the "transition_id" key of each call node
    trace_run,      \* the last run of build_async_order: input, order, fault
    earlier_run,    \* history: a run of build_async_order kept for comparison
    response,       \* preview_finalize_route: the last response
    preview_args,   \* history: what preview_finalize_execution gave the interpreter
    reading,        \* get_mapping_value suspended in mapping_cache_read
    fee_run,        \* history: the last run of _execute_public_fee
    lookup,         \* history: the last lookup of get_mapping_value
    builtin,        \* init_builtin_program: the database's builtin programs
    blocks          \* blocks_route: the chain and the last response

\* What finalize_block leaves alone: the state of the tracer, of the preview
\* route and of a suspended read.
others == <<annotations, trace_run, earlier_run, response, preview_args, reading,
            fee_run, lookup, builtin, blocks>>

vars == <<storage, cache, pc, reject_reasons, fault, ct, operations,
          reject_reason, local, calls, caught, expected, applied,
          annotations, trace_run, earlier_run, response, preview_args, reading,
          fee_run, lookup, builtin, blocks>>

\* The state of the operations that are modelled on their own.
aside == <<fee_run, lookup, builtin, blocks>>

\* ------------------------------------------------------------- data model
EmptyKV == [k \in KeyIds |-> NoId]
NotCached == [in |-> FALSE, kv |-> EmptyKV]
EmptyCache == [m \in MappingIds |-> NotCached]

\* Operations the instruction interpreter can return.
AdapterOps ==
    [type : {"UpdateKeyValue"}, mapping_id : WrittenMappingIds, key_id : WrittenKeyIds,
     value_id : WrittenValueIds]
    \cup [type : {"RemoveKeyValue"}, mapping_id : WrittenMappingIds, key_id : WrittenKeyIds,
          value_id : {NoId}]
    \cup [type : {"RemoveMapping"}, mapping_id : WrittenMappingIds, key_id : {NoId},
          value_id : {NoId}]

\* Operations an expected list (confirmed_transaction.finalize) can hold.
ExpectedOps ==
    [type : {"UpdateKeyValue"}, mapping_id : MappingIds, key_id : KeyIds,
     value_id : ValueIds]
    \cup [type : {"RemoveKeyValue"}, mapping_id : MappingIds, key_id : KeyIds,
          value_id : {NoId}]
    \cup [type : {"InitializeMapping", "RemoveMapping"}, mapping_id : MappingIds,
          key_id : {NoId}, value_id : {NoId}]

SeqsUpTo(S, n) == UNION {[1..k -> S] : k \in 0..n}

\* Reject reasons: None, or one of the four strings the code builds.
NoReason == [kind |-> "None", index |-> -1, instruction |-> NoId]
DeployReason == [kind |-> "(detailed reason not available)", index |-> -1, instruction |-> NoId]
UnknownReason == [kind |-> "unknown reason", index |-> -1, instruction |-> NoId]
ExecuteReason(i, ins) == [kind |-> "execute error at transition", index |-> i, instruction |-> ins]
FeeReason(ins) == [kind |-> "execute error at fee transition", index |-> -1, instruction |-> ins]

NoError == [raised |-> FALSE, transition_id |-> NoId, instruction |-> NoId, transitions |-> <<>>]
NoTx == [type |-> NoId, fee |-> NoId, mappings |-> <<>>]
NoLocal == [alias |-> FALSE, c |-> EmptyCache]

\* ------------------------------------------------ the instruction interpreter
\* What one call of execute_finalizer does: the operations of the commands it ran
\* and, when a command failed, the ExecuteError (transition id, instruction).
AdapterOutcomes(ids) ==
    [ops : SeqsUpTo(AdapterOps, MaxOps), raised : {FALSE}, transition_id : {NoId},
     instruction : {NoId}]
    \cup [ops : SeqsUpTo(AdapterOps, MaxOps), raised : {TRUE}, transition_id : ids,
          instruction : Instructions]

NoOutcome == [ops |-> <<>>, raised |-> FALSE, transition_id |-> NoId, instruction |-> NoId]

\* mapping_cache_read on a miss: the mapping's committed contents enter the cache.
mapping_cache_read(c, st, m) ==
    IF c[m].in THEN c ELSE [c EXCEPT ![m] = [in |-> TRUE, kv |-> st[m]]]

\* One set/remove command with state changes permitted: mapping_cache is written.
WriteShared(c, st, op) ==
    IF op.type = "UpdateKeyValue"
    THEN [mapping_cache_read(c, st, op.mapping_id) EXCEPT ![op.mapping_id].kv[op.key_id] = op.value_id]
    ELSE IF op.type = "RemoveKeyValue"
    THEN [mapping_cache_read(c, st, op.mapping_id) EXCEPT ![op.mapping_id].kv[op.key_id] = NoId]
    ELSE c

\* One set/remove command with state changes suppressed: local_mapping_cache is written.
WriteLocal(c, op) ==
    IF op.type = "UpdateKeyValue"
    THEN [c EXCEPT ![op.mapping_id] =
             [in |-> TRUE, kv |-> [c[op.mapping_id].kv EXCEPT ![op.key_id] = op.value_id]]]
    ELSE IF op.type = "RemoveKeyValue" /\ c[op.mapping_id].in
    THEN [c EXCEPT ![op.mapping_id].kv[op.key_id] = NoId]
    ELSE c

RECURSIVE RunShared(_, _, _)
RunShared(c, st, ops) ==
    IF ops = <<>> THEN c ELSE RunShared(WriteShared(c, st, Head(ops)), st, Tail(ops))

RECURSIVE RunLocal(_, _)
RunLocal(c, ops) ==
    IF ops = <<>> THEN c ELSE RunLocal(WriteLocal(c, Head(ops)), Tail(ops))

Tag(ops, by) ==
    [i \in 1..Len(ops) |->
        [type |-> ops[i].type, mapping_id |-> ops[i].mapping_id, key_id |-> ops[i].key_id,
         value_id |-> ops[i].value_id, by |-> by]]

\* execute_finalizer(.., mapping_cache, local_mapping_cache, allow_state_change):
\* the commands of `out` run against the caches; the operation list is returned
\* unless a command raised.  lc.alias says local_mapping_cache is mapping_cache.
execute_finalizer(mc, lc, allow_state_change, st, out, by) ==
    [mapping_cache |-> IF allow_state_change THEN RunShared(mc, st, out.ops) ELSE mc,
     local |-> IF allow_state_change \/ lc.alias THEN lc
               ELSE [lc EXCEPT !.c = RunLocal(lc.c, out.ops)],
     error |-> IF out.raised THEN "ExecuteError" ELSE NoId,
     transition_id |-> out.transition_id,
     instruction |-> out.instruction,
     result |-> IF out.raised THEN <<>> ELSE Tag(out.ops, by)]

\* ------------------------------------------------------------ fee transitions
\* The fields of a fee transition that _execute_public_fee reads.
OkFee == [program_id |-> "credits.aleo", function_name |-> "fee_public",
          output |-> "future", known |-> TRUE]
PublicFees ==
    {OkFee,
     [OkFee EXCEPT !.program_id = "other.aleo"],
     [OkFee EXCEPT !.output = "plain"],
     [OkFee EXCEPT !.output = "future_none"],
     [OkFee EXCEPT !.known = FALSE]}

\* What the interpreter can do with a fee transition: nothing is run for one
\* that fails the checks of _execute_public_fee.
FeeOutcomes(ft) == IF ft = OkFee THEN AdapterOutcomes({"fee"}) ELSE {NoOutcome}

NoCall == [called |-> FALSE, mapping_cache |-> EmptyCache, local |-> NoLocal, error |-> NoId,
           transition_id |-> NoId, instruction |-> NoId, result |-> <<>>]

\* The fee run without the checks of lines 22-32.
_execute_public_fee_Unchecked(ft, mc, lc, allow_state_change, st, out, by) ==
    [called |-> TRUE] @@ execute_finalizer(mc, lc, allow_state_change, st, out, by)

\* _execute_public_fee: the checks of the fee transition, then one interpreter call
\* with the order [fee_transition.id] and an empty rejected set.
_execute_public_fee(ft, mc, lc, allow_state_change, st, out, by) ==
    IF ft.program_id # "credits.aleo" \/ ft.function_name # "fee_public"
    THEN [NoCall EXCEPT !.mapping_cache = mc, !.local = lc, !.error = "TypeError: not a fee transition"]
    ELSE IF ft.output = "plain"
    THEN [NoCall EXCEPT !.mapping_cache = mc, !.local = lc, !.error = "TypeError: invalid fee transition output"]
    ELSE IF ft.output = "future_none"
    THEN [NoCall EXCEPT !.mapping_cache = mc, !.local = lc, !.error = "RuntimeError: invalid fee transition output"]
    ELSE IF ~ft.known
    THEN [NoCall EXCEPT !.mapping_cache = mc, !.local = lc, !.error = "RuntimeError: program not found"]
    ELSE [called |-> TRUE] @@ execute_finalizer(mc, lc, allow_state_change, st, out, by)

\* The record the history keeps of one interpreter call.
CallRecord(scope, mc, lc, allow_state_change, r) ==
    [scope |-> scope, allow_state_change |-> allow_state_change,
     local_alias |-> lc.alias, local_empty |-> (~lc.alias /\ lc.c = EmptyCache),
     raised |-> (r.error = "ExecuteError"), instruction |-> r.instruction,
     returned_ops |-> (r.result # <<>>), changed_shared |-> (r.mapping_cache # mc)]

\* The fee transition of a transaction is one object: once its checks passed
\* (an interpreter call for the fee is on record) they pass again.
FeeTransitions(cl) ==
    IF \E i \in 1..Len(cl) : cl[i].scope = "fee" THEN {OkFee} ELSE PublicFees

\* --------------------------------------------------------------- validation
\* The pair check without the comparison of value ids.
CheckPair_NoValue(e, o) ==
    IF e.type # o.type THEN "TypeError: invalid finalize operation type"
    ELSE IF e.mapping_id # o.mapping_id THEN "TypeError: invalid finalize mapping id"
    ELSE IF e.type = "InitializeMapping" THEN "ok"
    ELSE IF e.type \in {"UpdateKeyValue", "RemoveKeyValue"}
    THEN IF e.key_id # o.key_id
         THEN "TypeError: invalid finalize remove key operation" ELSE "ok"
    ELSE "NotImplementedError"

\* finalize_block, lines 246-261: the check of one (expected, actual) pair.
CheckPair(e, o) ==
    IF e.type # o.type THEN "TypeError: invalid finalize operation type"
    ELSE IF e.mapping_id # o.mapping_id THEN "TypeError: invalid finalize mapping id"
    ELSE IF e.type = "InitializeMapping" THEN "ok"
    ELSE IF e.type = "UpdateKeyValue"
    THEN IF e.key_id # o.key_id \/ e.value_id # o.value_id
         THEN "TypeError: invalid finalize update key operation" ELSE "ok"
    ELSE IF e.type = "RemoveKeyValue"
    THEN IF e.key_id # o.key_id
         THEN "TypeError: invalid finalize remove key operation" ELSE "ok"
    ELSE "NotImplementedError"

RECURSIVE CheckPairs(_, _)
CheckPairs(es, os) ==
    IF es = <<>> \/ os = <<>> THEN "ok"
    ELSE IF CheckPair(Head(es), Head(os)) # "ok" THEN CheckPair(Head(es), Head(os))
    ELSE CheckPairs(Tail(es), Tail(os))

\* The validation without the length check of line 240.
Validate_NoLength(es, os) == CheckPairs(es, os)

\* finalize_block, lines 240-267: the length check, then the pairs in order.
Validate(es, os) ==
    IF Len(es) # Len(os) THEN "TypeError: invalid finalize operation length"
    ELSE CheckPairs(es, os)

\* The faults of the pairwise check that the except clause of line 262 catches.
PairTypeErrors ==
    {"TypeError: invalid finalize operation type", "TypeError: invalid finalize mapping id",
     "TypeError: invalid finalize update key operation",
     "TypeError: invalid finalize remove key operation"}

\* The cache as the validation leaves it: cleared in the except clause.
CacheAfterValidate(c, verdict) == IF verdict \in PairTypeErrors THEN EmptyCache ELSE c

\* The expected operation that agrees with an actual one.
Untag(o) == [type |-> o.type, mapping_id |-> o.mapping_id, key_id |-> o.key_id,
             value_id |-> o.value_id]

\* The fields in which two operations differ; a field one of them does not
\* carry is not compared.
Differences(e, b) ==
    {f \in {"type", "mapping_id", "key_id", "value_id"} :
        e[f] # b[f] /\ e[f] # NoId /\ b[f] # NoId}

\* Expected lists (confirmed_transaction.finalize) tried against an actual list:
\* the agreeing one, every list that differs from it in one field of one
\* position, the list one shorter and a list one longer.  The checks stop at
\* the first difference, so a list with more differences fails like one of these.
ExpectedLists(os) ==
    LET base == [i \in 1..Len(os) |-> Untag(os[i])] IN
    {base}
    \cup UNION {{[base EXCEPT ![i] = e] :
                    e \in {x \in ExpectedOps : Cardinality(Differences(x, base[i])) = 1}} :
                i \in 1..Len(os)}
    \cup {SubSeq(base, 1, Len(os) - 1) : x \in {y \in {1} : Len(os) > 0}}
    \cup {Append(base, CHOOSE e \in ExpectedOps : TRUE)}

\* ---------------------------------------------------------- operation applier
\* The operations applied from the last to the first.
RECURSIVE execute_operations_LastFirst(_, _)
execute_operations_LastFirst(st, ops) ==
    IF ops = <<>> THEN [storage |-> st, applied |-> <<>>, error |-> NoId]
    ELSE LET o == Head(ops)
             rest == execute_operations_LastFirst(st, Tail(ops))
         IN IF o.type \notin {"InitializeMapping", "UpdateKeyValue", "RemoveKeyValue"}
            THEN [storage |-> st, applied |-> <<>>, error |-> "NotImplementedError"]
            ELSE [storage |-> IF o.type = "UpdateKeyValue"
                              THEN [rest.storage EXCEPT ![o.mapping_id][o.key_id] = o.value_id]
                              ELSE IF o.type = "RemoveKeyValue"
                              THEN [rest.storage EXCEPT ![o.mapping_id][o.key_id] = NoId]
                              ELSE rest.storage,
                  applied |-> <<o>> \o rest.applied,
                  error |-> rest.error]

\* execute_operations: the storage after the operations, applied in order; an
\* operation of another kind raises and leaves the earlier ones applied.  The
\* row db.initialize_mapping adds to the mapping registry holds no key: the
\* mapping's contents stay as they are, and `applied` records the call.
RECURSIVE execute_operations(_, _)
execute_operations(st, ops) ==
    IF ops = <<>> THEN [storage |-> st, applied |-> <<>>, error |-> NoId]
    ELSE LET o == Head(ops) IN
         IF o.type \notin {"InitializeMapping", "UpdateKeyValue", "RemoveKeyValue"}
         THEN [storage |-> st, applied |-> <<>>, error |-> "NotImplementedError"]
         ELSE LET st1 == IF o.type = "UpdateKeyValue"
                         THEN [st EXCEPT ![o.mapping_id][o.key_id] = o.value_id]
                         ELSE IF o.type = "RemoveKeyValue"
                         THEN [st EXCEPT ![o.mapping_id][o.key_id] = NoId]
                         ELSE st
                  rest == execute_operations(st1, Tail(ops))
              IN [rest EXCEPT !.applied = <<o>> \o rest.applied]

\* ----------------------------------------------------------- async order
\* Registers of a function body, and the finalize inputs an await names.
NoNode == [index |-> -1, name |-> NoId, calls |-> <<>>]
Registers == {"r1", "r2"}
Locators == {0, 1}

Call(callee, destination) == [op |-> "call", callee |-> callee, destination |-> destination]
Async(operands) == [op |-> "async", operands |-> operands]
Await(locator) == [op |-> "await", locator |-> locator]
Other == [op |-> "other"]

\* The functions of the deployed programs ("program/function"), as far as the
\* tracer reads them: whether there is a finalize, the call and async
\* instructions in program order, the commands of the finalize body.
Functions ==
    [f \in {"p/main", "a/f", "b/g", "c/h", "d/k", "q/main", "r/main", "u/main", "w/main",
            "x/main"} |->
        CASE f = "p/main" ->
               \* calls a/f then b/g; its finalize awaits b/g's future first
               [finalize |-> TRUE,
                instructions |-> <<Call("a/f", "r1"), Call("b/g", "r2"), Async(<<"r1", "r2">>)>>,
                commands |-> <<Await(1), Other, Await(0)>>]
          [] f = "a/f" ->
               [finalize |-> TRUE,
                instructions |-> <<Call("c/h", "r1"), Async(<<"r1">>)>>,
                commands |-> <<Other, Await(0)>>]
          [] f = "r/main" ->
               \* calls a/f then b/g and awaits them in that order; a/f awaits c/h
               [finalize |-> TRUE,
                instructions |-> <<Call("a/f", "r1"), Call("b/g", "r2"), Async(<<"r1", "r2">>)>>,
                commands |-> <<Await(0), Await(1)>>]
          [] f = "q/main" ->
               \* the first call has no finalize: it takes a place of the call graph
               [finalize |-> TRUE,
                instructions |-> <<Call("d/k", "r1"), Call("b/g", "r2"), Async(<<"r2">>)>>,
                commands |-> <<Await(0)>>]
          [] f = "u/main" ->
               \* the second await names a finalize input that holds no future
               [finalize |-> TRUE,
                instructions |-> <<Call("b/g", "r1"), Async(<<"r1">>)>>,
                commands |-> <<Await(0), Await(1)>>]
          [] f = "x/main" ->
               \* calls a program the database does not hold
               [finalize |-> TRUE,
                instructions |-> <<Call("z/gone", "r1"), Async(<<"r1">>)>>,
                commands |-> <<Await(0)>>]
          [] f \in {"d/k", "w/main"} ->
               [finalize |-> FALSE, instructions |-> <<>>, commands |-> <<>>]
          [] OTHER ->
               [finalize |-> TRUE, instructions |-> <<Async(<<>>)>>, commands |-> <<Other>>]]

Node(index, name, children) == [index |-> index, name |-> name, calls |-> children]

\* What is traced: a root function and the static call graph of it, whose
\* nodes carry the position of their transition in the execution.
TraceCases ==
    [c \in {"p", "q", "r", "u", "w", "b", "x", "m"} |->
        CASE c = "p" ->
               [function |-> "p/main", size |-> 4,
                call_graph |-> <<Node(1, "a/f", <<Node(0, "c/h", <<>>)>>), Node(2, "b/g", <<>>)>>]
          [] c = "r" ->
               [function |-> "r/main", size |-> 4,
                call_graph |-> <<Node(1, "a/f", <<Node(0, "c/h", <<>>)>>), Node(2, "b/g", <<>>)>>]
          [] c = "q" ->
               [function |-> "q/main", size |-> 3,
                call_graph |-> <<Node(0, "d/k", <<>>), Node(1, "b/g", <<>>)>>]
          [] c = "u" ->
               [function |-> "u/main", size |-> 2, call_graph |-> <<Node(0, "b/g", <<>>)>>]
          [] c = "w" -> [function |-> "w/main", size |-> 1, call_graph |-> <<>>]
          [] c = "b" -> [function |-> "b/g", size |-> 1, call_graph |-> <<>>]
          [] c = "x" ->
               [function |-> "x/main", size |-> 2, call_graph |-> <<Node(0, "z/gone", <<>>)>>]
          [] OTHER ->
               \* a call graph that does not fit the function body
               [function |-> "a/f", size |-> 2, call_graph |-> <<Node(0, "b/g", <<>>)>>]]

\* The transactions whose executions are traced, and the ids of the
\* transitions of one (execution.transitions, the outermost last).
Transactions == {"x", "y"}
TransitionIdsOf(tx, size) == [i \in 1..size |-> <<tx, i>>]
NoAnnotations == [i \in 0..3 |-> NoId]

\* No run of the tracer, no suspended read.
NoRun == [case |-> NoId, tx |-> NoId, async_order |-> <<>>, error |-> NoId, handed |-> FALSE,
          between |-> FALSE]
NotReading == [mapping_id |-> NoId, kv |-> EmptyKV]

\* ------------------------------------------------ _execute_public_fee: data
\* Argument lists of the future a fee transition's output carries.
ArgumentLists == {<<>>, <<"PlaintextArgument">>, <<"PlaintextArgument", "FutureArgument">>}

\* Fee transitions: the fields the checks read, the transition's id, and the
\* future of its first output.
FeeCases ==
    [fee : PublicFees, id : TransitionIds,
     future : [program_id : {"credits.aleo"}, function_name : {"fee_public"},
               arguments : ArgumentLists]]
NoFeeCase == [fee |-> OkFee, id |-> NoId,
              future |-> [program_id |-> NoId, function_name |-> NoId, arguments |-> <<>>]]

\* What execute_finalizer was handed by no call.
NoFeeArguments == [transition_ids |-> <<>>, rejected |-> {}, program |-> NoId,
                   function_name |-> NoId, inputs |-> <<>>]
NoFeeRun == [transition |-> NoFeeCase, called |-> FALSE, invocations |-> 0,
             arguments |-> NoFeeArguments, allow_state_change |-> FALSE, error |-> NoId]

\* ---------------------------------------------------- get_mapping_value: data
\* The mappings looked up: the program that declares each and whether its key
\* type is a literal type.
LookupMappings ==
    [m \in MappingIds |->
        IF m = "m1" THEN [program_id |-> "p.aleo", key_literal |-> TRUE]
        ELSE [program_id |-> "s.aleo", key_literal |-> FALSE]]

\* No lookup yet: `seq` tells one call from the next, `read` says line 308 read
\* the mapping from the database, program_cache is global_program_cache.
NoLookup == [seq |-> 0, mapping_id |-> NoId, key_id |-> NoId, read |-> FALSE,
             outcome |-> NoId, value |-> NoId, program_cache |-> {}]

\* -------------------------------------------------- init_builtin_program: data
\* Most calls of init_builtin_program counted for one program.
MaxCalls == 2

\* Builtin programs handed to init_builtin_program: the id and the declared
\* mappings, in declaration order.
BuiltinPrograms ==
    {[id |-> "credits.aleo", mappings |-> <<"m1", "m2">>],
     [id |-> "one.aleo", mappings |-> <<"m1">>],
     [id |-> "none.aleo", mappings |-> <<>>]}
BuiltinIds == {program.id : program \in BuiltinPrograms}

\* The database as init_builtin_program sees it: the programs stored, the
\* (program, mapping) pairs initialized as builtin mappings, the calls of
\* save_builtin_program per program; `last` is the program of the last call
\* that completed and `calls` counts the completed calls per program.
NoBuiltin == [stored |-> {}, initialized |-> {}, saves |-> [i \in BuiltinIds |-> 0],
              last |-> NoId, calls |-> [i \in BuiltinIds |-> 0]]

\* ----------------------------------------------------------- blocks_route: data
\* Highest latest height and highest page number tried.
MaxHeight == 41
MaxPage == 4
\* Blocks on one page (the literal 20 of blocks_route).
PageSize == 20
\* db.get_latest_height() on a chain without blocks: None.
NoHeight == -1
Heights == {NoHeight} \cup 0..MaxHeight

\* The query parameter "p": absent, the text of an integer, or other text.
AbsentPage == [given |-> FALSE, text |-> "number", value |-> 0]
PageParams ==
    {AbsentPage}
    \cup [given : {TRUE}, text : {"number"}, value : -1..MaxPage]
    \cup [given : {TRUE}, text : {"junk"}, value : {0}]

\* No request to blocks_route yet.
NoBlocks == [latest_height |-> NoHeight, p |-> AbsentPage, status |-> 0, error |-> NoId,
             start |-> NoHeight, end |-> NoHeight, total_blocks |-> 0, total_pages |-> 0]

\* ------------------------------------------------- the preview route: data
\* Most items of a request's "inputs" array, and most operations a preview
\* execution returns.
MaxInputs == 2
MaxPreviewOps == 2

\* JSON values of the items of "inputs", each with what str() makes of it.
JsonValues ==
    {[json |-> "number", str |-> "7"],
     [json |-> "number", str |-> "300"],
     [json |-> "string", str |-> "junk"],
     [json |-> "object", str |-> "{'a': 7}"]}

\* The "inputs" field of a request body: absent, not an array, or an array.
NoInputs == [json |-> "null", items |-> <<>>]
ObjectInputs == [json |-> "object", items |-> <<>>]
ArrayInputs(items) == [json |-> "array", items |-> items]

\* Plaintext types of finalize inputs.
LiteralType(primitive) == [type |-> "Literal", of |-> primitive]
StructType(struct) == [type |-> "Struct", of |-> struct]
ArrayType == [type |-> "Array", of |-> NoId]

\* The stored program p.aleo: its functions, each with its finalize inputs.
PreviewFunctions ==
    [mix   |-> [finalize |-> TRUE, inputs |-> <<LiteralType("u8"), StructType("S")>>],
     arr   |-> [finalize |-> TRUE, inputs |-> <<LiteralType("u8"), ArrayType>>],
     none  |-> [finalize |-> TRUE, inputs |-> <<>>],
     plain |-> [finalize |-> FALSE, inputs |-> <<>>]]
StoredPrograms == {"p.aleo"}

\* Request bodies: one with a fault before the inputs are looked at, or one for
\* a function with a finalizer and any array of inputs.
Requests ==
    [program_id : {NoId}, transition_name : {"mix"}, inputs : {ArrayInputs(<<>>)}]
    \cup [program_id : {"p.aleo"}, transition_name : {NoId}, inputs : {ArrayInputs(<<>>)}]
    \cup [program_id : {"p.aleo"}, transition_name : {"mix"}, inputs : {NoInputs, ObjectInputs}]
    \cup [program_id : {"ghost.aleo"}, transition_name : {"mix"}, inputs : {ArrayInputs(<<>>)}]
    \cup [program_id : {"p.aleo"}, transition_name : {"ghost", "plain"}, inputs : {ArrayInputs(<<>>)}]
    \cup [program_id : {"p.aleo"}, transition_name : {"mix", "arr"},
          inputs : {ArrayInputs(items) : items \in SeqsUpTo(JsonValues, MaxInputs)}]
    \cup [program_id : {"p.aleo"}, transition_name : {"none"},
          inputs : {ArrayInputs(items) : items \in SeqsUpTo(JsonValues, 1)}]
NoRequest == [program_id |-> NoId, transition_name |-> NoId, inputs |-> NoInputs]

\* Operations a preview execution can return, of every kind the route tells apart.
PreviewOps ==
    [type : {"UpdateKeyValue"}, mapping_id : {"m1"}, key_id : KeyIds, value_id : {"v1"}]
    \cup [type : {"RemoveKeyValue"}, mapping_id : {"m1"}, key_id : {"k1"}, value_id : {NoId}]
    \cup [type : {"InitializeMapping", "InsertKeyValue", "RemoveMapping", "Unknown"},
          mapping_id : {"m1"}, key_id : {NoId}, value_id : {NoId}]
PreviewOutcomes ==
    [ops : SeqsUpTo(PreviewOps, MaxPreviewOps), raised : {FALSE}, transition_id : {NoId},
     instruction : {NoId}]
    \cup [ops : SeqsUpTo(PreviewOps, 1), raised : {TRUE}, transition_id : {"t0"},
          instruction : Instructions]

\* No response yet, and no interpreter call made for a preview.
NoResponse == [request |-> NoRequest, status |-> 0, error |-> NoId, index |-> -1,
               instruction |-> NoId, mapping_updates |-> <<>>, raised |-> NoId]
NoArgs == [pending |-> NoRequest, called |-> FALSE, mapping_cache |-> EmptyCache, local_mapping_cache |-> NoLocal,
           allow_state_change |-> FALSE, execute_await |-> FALSE, inputs |-> <<>>,
           error |-> NoId, result |-> <<>>]

\* ------------------------------------------------------------------- actions
Init ==
    /\ storage = [m \in MappingIds |-> EmptyKV]
    /\ cache = EmptyCache
    /\ pc = "idle"
    /\ reject_reasons = <<>>
    /\ fault = NoId
    /\ ct = NoTx
    /\ operations = <<>>
    /\ reject_reason = NoReason
    /\ local = NoLocal
    /\ calls = <<>>
    /\ caught = NoError
    /\ expected = <<>>
    /\ applied = <<>>
    /\ annotations = [c \in DOMAIN TraceCases |-> NoAnnotations]
    /\ trace_run = NoRun
    /\ earlier_run = NoRun
    /\ response = NoResponse
    /\ preview_args = NoArgs
    /\ reading = NotReading
    /\ fee_run = NoFeeRun
    /\ lookup = NoLookup
    /\ builtin = NoBuiltin
    /\ blocks = NoBlocks

\* The exception swallowed: the loop goes on with the next transaction.
Raise_Swallow(f, c, tx, cl) ==
    /\ pc' = "loop"
    /\ fault' = f
    /\ cache' = c
    /\ ct' = NoTx
    /\ calls' = <<>>
    /\ operations' = <<>>
    /\ reject_reason' = NoReason
    /\ local' = NoLocal
    /\ expected' = <<>>
    /\ UNCHANGED <<storage, reject_reasons, caught, applied>>

\* An exception leaves finalize_block: nothing is caught on the way out.
Raise(f, c, tx, cl) ==
    /\ pc' = "raised"
    /\ fault' = f
    /\ cache' = c
    /\ ct' = tx
    /\ calls' = cl
    /\ operations' = <<>>
    /\ reject_reason' = NoReason
    /\ local' = NoLocal
    /\ expected' = <<>>
    /\ UNCHANGED <<storage, reject_reasons, caught, applied>>

\* finalize_block is called (again, after it returned or raised): lines 228-229.
finalize_block_call ==
    /\ UNCHANGED others
    /\ pc \in {"idle", "returned", "raised"}
    /\ pc' = "loop"
    /\ reject_reasons' = <<>>
    /\ fault' = NoId
    /\ ct' = NoTx
    /\ operations' = <<>>
    /\ reject_reason' = NoReason
    /\ local' = NoLocal
    /\ calls' = <<>>
    /\ caught' = NoError
    /\ expected' = <<>>
    /\ applied' = <<>>
    /\ UNCHANGED <<storage, cache>>

\* The next transaction taken while the previous one awaits its validation.
next_transaction_Early ==
    /\ UNCHANGED others
    /\ pc \in {"validate", "applied"}
    /\ Len(reject_reasons) < MaxTxs
    /\ pc' = "loop"
    /\ ct' = NoTx
    /\ operations' = <<>>
    /\ reject_reason' = NoReason
    /\ local' = NoLocal
    /\ calls' = <<>>
    /\ caught' = NoError
    /\ expected' = <<>>
    /\ applied' = <<>>
    /\ UNCHANGED <<storage, cache, reject_reasons, fault>>

\* The for loop of line 230 takes the next transaction: the locals of the
\* previous iteration are gone.
next_transaction ==
    /\ UNCHANGED others
    /\ pc = "applied"
    /\ Len(reject_reasons) < MaxTxs
    /\ pc' = "loop"
    /\ ct' = NoTx
    /\ operations' = <<>>
    /\ reject_reason' = NoReason
    /\ local' = NoLocal
    /\ calls' = <<>>
    /\ caught' = NoError
    /\ expected' = <<>>
    /\ applied' = <<>>
    /\ UNCHANGED <<storage, cache, reject_reasons, fault>>

\* The block is exhausted: line 271.
finalize_block_return ==
    /\ UNCHANGED others
    /\ pc = "applied" \/ (pc = "loop" /\ reject_reasons = <<>>)
    /\ pc' = "returned"
    /\ UNCHANGED <<storage, cache, reject_reasons, fault, ct, operations,
                   reject_reason, local, calls, caught, expected, applied>>

\* The InitializeMapping operations placed before the fee operations.
DeployOperations_InitFirst(type, fee_operations, mappings) ==
    IF type = "AcceptedDeploy"
    THEN [i \in 1..Len(mappings) |->
             [type |-> "InitializeMapping", mapping_id |-> mappings[i],
              key_id |-> NoId, value_id |-> NoId, by |-> "deploy"]] \o fee_operations
    ELSE fee_operations

\* finalize_deploy, lines 51-62: an accepted deploy appends one InitializeMapping
\* per mapping of the program, in the order of program.mappings.
DeployOperations(type, fee_operations, mappings) ==
    IF type = "AcceptedDeploy"
    THEN fee_operations \o [i \in 1..Len(mappings) |->
                              [type |-> "InitializeMapping", mapping_id |-> mappings[i],
                               key_id |-> NoId, value_id |-> NoId, by |-> "deploy"]]
    ELSE fee_operations

\* finalize_deploy, lines 38-67, for the next transaction of the block.
finalize_deploy ==
    /\ UNCHANGED others
    /\ pc = "loop"
    /\ \E type \in {"AcceptedDeploy", "RejectedDeploy"} :
       \E fee \in {"fee_private", "fee_public"} :
          \/ \* line 45: the transaction is neither a deploy nor a fee transaction
             Raise("NotImplementedError", cache, [type |-> type, fee |-> fee, mappings |-> <<>>],
                   <<>>)
          \/ \E ft \in (IF fee = "fee_public" THEN PublicFees ELSE {OkFee}) :
             \E out \in (IF fee = "fee_public" THEN FeeOutcomes(ft) ELSE {NoOutcome}),
                mappings \in (IF type = "AcceptedDeploy" THEN MappingLists ELSE {<<>>}) :
                LET tx == [type |-> type, fee |-> fee, mappings |-> mappings]
                    fresh == NoLocal
                    r == IF fee = "fee_public"
                         THEN _execute_public_fee(ft, cache, fresh, TRUE, storage, out, "fee")
                         ELSE [NoCall EXCEPT !.mapping_cache = cache]
                    cl == IF r.called THEN <<CallRecord("fee", cache, fresh, TRUE, r)>> ELSE <<>>
                IN IF r.error # NoId
                   THEN Raise(r.error, r.mapping_cache, tx, cl)
                   ELSE /\ pc' = "validate"
                        /\ cache' = r.mapping_cache
                        /\ ct' = tx
                        /\ calls' = cl
                        /\ operations' = DeployOperations(type, r.result, mappings)
                        /\ reject_reason' = IF type = "AcceptedDeploy" THEN NoReason
                                            ELSE DeployReason
                        /\ UNCHANGED <<storage, reject_reasons, fault, local,
                                       caught, expected, applied>>

\* list.index: the first position (from 0) that holds x.
IndexOf(tr, x) == (CHOOSE i \in 1..Len(tr) : tr[i] = x /\ \A j \in 1..(i - 1) : tr[j] # x) - 1

Ids(tr) == {tr[i] : i \in 1..Len(tr)}

\* Every execute run like an accepted one.
ExecuteMode_Accepted(type) ==
    [allow_state_change |-> TRUE,
     local_mapping_cache |-> [alias |-> TRUE, c |-> EmptyCache]]

\* finalize_execute, lines 149-165: an accepted execute runs with state changes
\* and the shared cache as its local cache (line 155), a rejected one without
\* state changes and with a new empty dict (line 162).
ExecuteMode(type) ==
    [allow_state_change |-> (type = "AcceptedExecute"),
     local_mapping_cache |-> [alias |-> (type = "AcceptedExecute"), c |-> EmptyCache]]

\* The reason naming the last transition instead of the one that failed.
CaughtReason_Last(tr, transition_id, instruction) ==
    ExecuteReason(Len(tr) - 1, instruction)

\* finalize_execute, lines 191-199: the caught ExecuteError becomes the reason,
\* with the position of the transition that carries the error's id.
CaughtReason(tr, transition_id, instruction) ==
    ExecuteReason(IndexOf(tr, transition_id), instruction)

\* The probe's fault ignored.
ProbeReason_Unknown(raised, instruction) == UnknownReason

\* finalize_execute, lines 205-213: the reason after the fee ran as a probe.
ProbeReason(raised, instruction) ==
    IF raised THEN FeeReason(instruction) ELSE UnknownReason

\* The fee step run with the flag of the transaction's type.
FeeStepAllow_Inherit(type) == (type = "AcceptedExecute")

\* finalize_execute, line 223: the fee step passes allow_state_change = True.
FeeStepAllow(type) == TRUE

\* finalize_execute, lines 148-199: the branch on the transaction type and the
\* primary finalize of the outermost transition's future.
finalize_execute_primary ==
    /\ UNCHANGED others
    /\ pc = "loop"
    /\ \E type \in {"AcceptedExecute", "RejectedExecute"} :
       \E fee \in IF type = "AcceptedExecute" THEN {"none", "fee_private", "fee_public"}
                  ELSE {"fee_private", "fee_public"} :
          LET tx == [type |-> type, fee |-> fee, mappings |-> <<>>]
              allow_state_change == ExecuteMode(type).allow_state_change
              lc == ExecuteMode(type).local_mapping_cache
              next == IF type = "RejectedExecute" THEN "fee_probe" ELSE "fee"
          IN
          \/ \* lines 152, 159, 164: the transaction does not have the shape of its type
             Raise("TypeError: invalid execute transaction", cache, tx, <<>>)
          \/ \* lines 176, 180: the future is None, or its program is unknown;
             \* line 184: build_async_order raises
             Raise("RuntimeError", cache, tx, <<>>)
          \/ \* lines 171, 173: no outputs, or the last output is no future
             /\ pc' = next
             /\ ct' = tx
             /\ local' = lc
             /\ operations' = <<>>
             /\ reject_reason' = NoReason
             /\ calls' = <<>>
             /\ UNCHANGED <<storage, cache, reject_reasons, fault, caught,
                            expected, applied>>
          \/ \E tr \in TransitionLists, out \in AdapterOutcomes(TransitionIds) :
                LET r == execute_finalizer(cache, lc, allow_state_change, storage, out, "execute")
                    cl == <<CallRecord("execute", cache, lc, allow_state_change, r)>>
                IN IF r.error = NoId
                   THEN /\ pc' = next
                        /\ ct' = tx
                        /\ cache' = r.mapping_cache
                        /\ local' = r.local
                        /\ operations' = r.result
                        /\ reject_reason' = NoReason
                        /\ calls' = cl
                        /\ UNCHANGED <<storage, reject_reasons, fault, caught,
                                       expected, applied>>
                   ELSE IF r.transition_id \in Ids(tr)
                   THEN \* lines 191-199: the error is caught and becomes the reason
                        /\ pc' = "fee"
                        /\ ct' = tx
                        /\ cache' = r.mapping_cache
                        /\ local' = r.local
                        /\ operations' = <<>>
                        /\ reject_reason' = CaughtReason(tr, r.transition_id, r.instruction)
                        /\ calls' = cl
                        /\ caught' = [raised |-> TRUE, transition_id |-> r.transition_id,
                                      instruction |-> r.instruction, transitions |-> tr]
                        /\ UNCHANGED <<storage, reject_reasons, fault,
                                       expected, applied>>
                   ELSE \* line 197
                        Raise("RuntimeError: rejected transition not found in transaction",
                              r.mapping_cache, tx, cl)

\* finalize_execute, lines 200-217: a rejected execute whose primary finalize
\* gave no reason runs the fee with the flags of the rejected execution.
finalize_execute_fee_probe ==
    /\ UNCHANGED others
    /\ pc = "fee_probe"
    /\ IF ct.fee = "fee_public"
       THEN \E ft \in PublicFees : \E out \in FeeOutcomes(ft) :
               LET allow == ExecuteMode(ct.type).allow_state_change
                   r == _execute_public_fee(ft, cache, local, allow, storage, out, "fee_probe")
                   cl == IF r.called
                         THEN Append(calls, CallRecord("fee", cache, local, allow, r))
                         ELSE calls
               IN IF r.error \notin {NoId, "ExecuteError"}
                  THEN Raise(r.error, r.mapping_cache, ct, cl)
                  ELSE /\ pc' = "fee"
                       /\ cache' = r.mapping_cache
                       /\ local' = r.local
                       /\ calls' = cl
                       /\ operations' = <<>>
                       /\ reject_reason' = ProbeReason(r.error = "ExecuteError", r.instruction)
                       /\ UNCHANGED <<storage, reject_reasons, fault, ct, caught,
                                      expected, applied>>
       ELSE /\ pc' = "fee"
            /\ operations' = <<>>
            /\ reject_reason' = UnknownReason
            /\ UNCHANGED <<storage, cache, reject_reasons, fault, ct, local,
                           calls, caught, expected, applied>>

\* finalize_execute, lines 219-224: the fee step and the return.
finalize_execute_fee ==
    /\ UNCHANGED others
    /\ pc = "fee"
    /\ IF ct.fee = "fee_public"
       THEN \E ft \in FeeTransitions(calls) : \E out \in FeeOutcomes(ft) :
               LET allow == FeeStepAllow(ct.type)
                   r == _execute_public_fee(ft, cache, local, allow, storage, out, "fee")
                   cl == IF r.called
                         THEN Append(calls, CallRecord("fee", cache, local, allow, r))
                         ELSE calls
               IN IF r.error # NoId
                  THEN Raise(r.error, r.mapping_cache, ct, cl)
                  ELSE /\ pc' = "validate"
                       /\ cache' = r.mapping_cache
                       /\ local' = NoLocal
                       /\ calls' = cl
                       /\ operations' = operations \o r.result
                       /\ UNCHANGED <<storage, reject_reasons, fault, ct,
                                      reject_reason, caught, expected, applied>>
       ELSE /\ pc' = "validate"
            /\ local' = NoLocal
            /\ UNCHANGED <<storage, cache, reject_reasons, fault, ct, operations,
                           reject_reason, calls, caught, expected, applied>>

\* The reason put in front of the list.
AppendReason_Front(reasons, reason) == <<reason>> \o reasons

\* finalize_block, line 270: reject_reasons.append(reject_reason).
AppendReason(reasons, reason) == Append(reasons, reason)

\* finalize_block, lines 240-270: the validation of the transaction's operations
\* against the expected ones, then execute_operations and the reason.
validate_and_apply ==
    /\ UNCHANGED others
    /\ pc = "validate"
    /\ \E verdicts \in {[es \in ExpectedLists(operations) |-> Validate(es, operations)]} :
       \E verdict \in {verdicts[es] : es \in DOMAIN verdicts} :
          IF verdict # "ok"
          THEN Raise(verdict, CacheAfterValidate(cache, verdict), ct, calls)
          ELSE \E es \in {e \in DOMAIN verdicts : verdicts[e] = "ok"} :
               \E a \in {execute_operations(storage, operations)} :
                  /\ storage' = a.storage
                  /\ applied' = a.applied
                  /\ expected' = es
                  /\ IF a.error # NoId
                     THEN /\ pc' = "raised"
                          /\ fault' = a.error
                          /\ UNCHANGED reject_reasons
                     ELSE /\ pc' = "applied"
                          /\ reject_reasons' = AppendReason(reject_reasons, reject_reason)
                          /\ UNCHANGED fault
                  /\ caught' = NoError
                  /\ UNCHANGED <<cache, ct, operations, reject_reason, local, calls>>

\* The variables of finalize_block.
finalize_vars == <<storage, cache, pc, reject_reasons, fault, ct, operations,
                   reject_reason, local, calls, caught, expected, applied>>

\* get_mapping_value, lines 306-308: a mapping that is not in the process-wide
\* cache is read from the database and kept.  The lines after 308 write
\* nothing.  It runs between two calls of finalize_block.
get_mapping_value ==
    /\ UNCHANGED others
    /\ pc \in {"idle", "returned", "raised"}
    /\ \E m \in MappingIds :
          /\ ~cache[m].in
          /\ cache' = mapping_cache_read(cache, storage, m)
    /\ UNCHANGED <<storage, pc, reject_reasons, fault, ct, operations, reject_reason,
                   local, calls, caught, expected, applied>>

Next ==
    \/ finalize_block_call
    \/ get_mapping_value
    \/ finalize_deploy
    \/ finalize_execute_primary
    \/ finalize_execute_fee_probe
    \/ finalize_execute_fee
    \/ validate_and_apply
    \/ next_transaction
    \/ finalize_block_return

Spec == Init /\ [][Next]_vars

\* ------------------------------------- get_mapping_value beside finalize
\* get_mapping_value, lines 307-308, up to the await: the mapping is not in the
\* process-wide cache and its contents are read from the database.  The
\* coroutine is suspended there, and finalize_block may run meanwhile.
get_mapping_value_read ==
    /\ reading = NotReading
    /\ \E m \in MappingIds :
          /\ ~cache[m].in
          /\ reading' = [mapping_id |-> m, kv |-> storage[m]]
    /\ UNCHANGED <<finalize_vars, annotations, trace_run, earlier_run, response, preview_args, aside>>

\* get_mapping_value, line 308, after the await: what was read is stored in the
\* process-wide cache under the mapping's id, whatever the entry holds by now.
get_mapping_value_store ==
    /\ reading # NotReading
    /\ cache' = [cache EXCEPT ![reading.mapping_id] = [in |-> TRUE, kv |-> reading.kv]]
    /\ reading' = NotReading
    /\ UNCHANGED <<storage, pc, reject_reasons, fault, ct, operations, reject_reason,
                   local, calls, caught, expected, applied>>
    /\ UNCHANGED <<annotations, trace_run, earlier_run, response, preview_args, aside>>

RaceNext ==
    \/ Next
    \/ get_mapping_value_read
    \/ get_mapping_value_store

RaceSpec == Init /\ [][RaceNext]_vars

\* ----------------------------------------------------------- the tracer
\* The annotation that keeps an id a node already holds.
RECURSIVE Annotate_IfMissing(_, _, _)
Annotate_IfMissing(ann, node_calls, transition_ids) ==
    IF node_calls = <<>> THEN ann
    ELSE Annotate_IfMissing(
             IF ann[Head(node_calls).index] # NoId THEN ann
             ELSE [ann EXCEPT ![Head(node_calls).index] =
                                 transition_ids[Head(node_calls).index + 1]],
             Tail(node_calls), transition_ids)

\* _trace_execution, lines 84-85: every call node of `node` gets the id of its
\* transition, whatever it held before.
RECURSIVE Annotate(_, _, _)
Annotate(ann, node_calls, transition_ids) ==
    IF node_calls = <<>> THEN ann
    ELSE Annotate([ann EXCEPT ![Head(node_calls).index] =
                                 transition_ids[Head(node_calls).index + 1]],
                  Tail(node_calls), transition_ids)

\* The async instruction that maps every position to the call node of its
\* first operand.
FinalizeRegisters_First(operands, future_register_map, finalize_register_map) ==
    [l \in Locators |->
        IF l + 1 <= Len(operands) /\ future_register_map[operands[1]] # NoNode
        THEN future_register_map[operands[1]]
        ELSE finalize_register_map[l]]

\* _trace_execution, lines 107-111: an async instruction maps the position of
\* each operand that holds a future to the call node of that future.
FinalizeRegisters(operands, future_register_map, finalize_register_map) ==
    [l \in Locators |->
        IF l + 1 <= Len(operands) /\ future_register_map[operands[l + 1]] # NoNode
        THEN future_register_map[operands[l + 1]]
        ELSE finalize_register_map[l]]

\* The loop over the instructions in which a call to a function without a
\* finalize takes no place of the call graph.
RECURSIVE ScanInstructions_NoAdvance(_, _, _, _, _)
ScanInstructions_NoAdvance(insts, node, call_index, future_register_map, finalize_register_map) ==
    IF insts = <<>> THEN [map |-> finalize_register_map, error |-> NoId]
    ELSE LET inst == Head(insts) IN
         IF inst.op = "call"
         THEN IF inst.callee \notin DOMAIN Functions
              THEN [map |-> finalize_register_map, error |-> "RuntimeError: program not found"]
              ELSE IF ~Functions[inst.callee].finalize
              THEN ScanInstructions_NoAdvance(Tail(insts), node, call_index,
                                              future_register_map, finalize_register_map)
              ELSE IF call_index + 1 > Len(node.calls)
              THEN [map |-> finalize_register_map, error |-> "IndexError"]
              ELSE IF inst.callee # node.calls[call_index + 1].name
              THEN [map |-> finalize_register_map,
                    error |-> "RuntimeError: call analysis failed"]
              ELSE ScanInstructions_NoAdvance(
                       Tail(insts), node, call_index + 1,
                       [future_register_map EXCEPT ![inst.destination] =
                                                      node.calls[call_index + 1]],
                       finalize_register_map)
         ELSE IF inst.op = "async"
         THEN ScanInstructions_NoAdvance(
                  Tail(insts), node, call_index, future_register_map,
                  FinalizeRegisters(inst.operands, future_register_map, finalize_register_map))
         ELSE ScanInstructions_NoAdvance(Tail(insts), node, call_index,
                                         future_register_map, finalize_register_map)

\* _trace_execution, lines 92-111: the loop over the instructions of the
\* function; the result is finalize_register_map, or the fault raised.
RECURSIVE ScanInstructions(_, _, _, _, _)
ScanInstructions(insts, node, call_index, future_register_map, finalize_register_map) ==
    IF insts = <<>> THEN [map |-> finalize_register_map, error |-> NoId]
    ELSE LET inst == Head(insts) IN
         IF inst.op = "call"
         THEN IF inst.callee \notin DOMAIN Functions
              THEN [map |-> finalize_register_map, error |-> "RuntimeError: program not found"]
              ELSE IF ~Functions[inst.callee].finalize
              THEN ScanInstructions(Tail(insts), node, call_index + 1,
                                    future_register_map, finalize_register_map)
              ELSE IF call_index + 1 > Len(node.calls)
              THEN [map |-> finalize_register_map, error |-> "IndexError"]
              ELSE IF inst.callee # node.calls[call_index + 1].name
              THEN [map |-> finalize_register_map,
                    error |-> "RuntimeError: call analysis failed"]
              ELSE ScanInstructions(
                       Tail(insts), node, call_index + 1,
                       [future_register_map EXCEPT ![inst.destination] =
                                                      node.calls[call_index + 1]],
                       finalize_register_map)
         ELSE IF inst.op = "async"
         THEN ScanInstructions(
                  Tail(insts), node, call_index, future_register_map,
                  FinalizeRegisters(inst.operands, future_register_map, finalize_register_map))
         ELSE ScanInstructions(Tail(insts), node, call_index,
                               future_register_map, finalize_register_map)

\* The await commands sorted by the finalize input they name.
Awaits_ByLocator(commands) ==
    LET a == SelectSeq(commands, LAMBDA c : c.op = "await") IN
    IF Len(a) = 2 /\ a[1].locator > a[2].locator THEN <<a[2], a[1]>> ELSE a

\* _trace_execution, lines 113-114: the await commands of the finalize body,
\* in the order of the body.
Awaits(commands) == SelectSeq(commands, LAMBDA c : c.op = "await")

\* _trace_execution, lines 82-126.  st is what the call has done so far: the
\* order appended to, the fault raised, the annotations of the call graph.
RECURSIVE _trace_execution(_, _, _, _)
RECURSIVE TraceAwaits(_, _, _, _)
_trace_execution(transition_ids, function_name, node, st) ==
    IF \E i \in 1..Len(node.calls) : node.calls[i].index + 1 > Len(transition_ids)
    THEN [st EXCEPT !.error = "IndexError"]
    ELSE LET st1 == [st EXCEPT !.ann = Annotate(st.ann, node.calls, transition_ids)]
             function == Functions[function_name]
             scan == ScanInstructions(function.instructions, node, 0,
                                      [r \in Registers |-> NoNode],
                                      [l \in Locators |-> NoNode])
         IN IF ~function.finalize THEN st1
            ELSE IF scan.error # NoId THEN [st1 EXCEPT !.error = scan.error]
            ELSE TraceAwaits(transition_ids, Awaits(function.commands), scan.map, st1)

\* The TraceAwaits loop that passes over an await it cannot resolve.
RECURSIVE TraceAwaits_Skip(_, _, _, _)
TraceAwaits_Skip(transition_ids, awaits, finalize_register_map, st) ==
    IF awaits = <<>> \/ st.error # NoId THEN st
    ELSE LET locator == Head(awaits).locator IN
         IF locator \notin Locators \/ finalize_register_map[locator] = NoNode
         THEN TraceAwaits_Skip(transition_ids, Tail(awaits), finalize_register_map, st)
         ELSE LET called_node == finalize_register_map[locator]
                  st1 == [st EXCEPT !.order = Append(st.order, st.ann[called_node.index])]
              IN IF called_node.name \notin DOMAIN Functions
                 THEN [st1 EXCEPT !.error = "RuntimeError: program not found"]
                 ELSE TraceAwaits_Skip(transition_ids, Tail(awaits), finalize_register_map,
                                       _trace_execution(transition_ids, called_node.name,
                                                        called_node, st1))

\* The loop that appends the ids of all awaited futures first and follows
\* them afterwards.
RECURSIVE Descend(_, _, _, _)
Descend(transition_ids, awaits, finalize_register_map, st) ==
    IF awaits = <<>> \/ st.error # NoId THEN st
    ELSE LET called_node == finalize_register_map[Head(awaits).locator]
         IN IF called_node.name \notin DOMAIN Functions
            THEN [st EXCEPT !.error = "RuntimeError: program not found"]
            ELSE Descend(transition_ids, Tail(awaits), finalize_register_map,
                         _trace_execution(transition_ids, called_node.name, called_node, st))

TraceAwaits_BreadthFirst(transition_ids, awaits, finalize_register_map, st) ==
    IF awaits = <<>> \/ st.error # NoId THEN st
    ELSE IF \E i \in 1..Len(awaits) :
               awaits[i].locator \notin Locators \/ finalize_register_map[awaits[i].locator] = NoNode
    THEN [st EXCEPT !.error = "RuntimeError: invalid await command"]
    ELSE Descend(transition_ids, awaits, finalize_register_map,
                 [st EXCEPT !.order = st.order \o
                     [i \in 1..Len(awaits) |->
                         st.ann[finalize_register_map[awaits[i].locator].index]]])

\* _trace_execution, lines 113-126: the loop over the await commands.
TraceAwaits(transition_ids, awaits, finalize_register_map, st) ==
    IF awaits = <<>> \/ st.error # NoId THEN st
    ELSE LET locator == Head(awaits).locator IN
         IF locator \notin Locators \/ finalize_register_map[locator] = NoNode
         THEN [st EXCEPT !.error = "RuntimeError: invalid await command"]
         ELSE LET called_node == finalize_register_map[locator]
                  st1 == [st EXCEPT !.order = Append(st.order, st.ann[called_node.index])]
              IN IF called_node.name \notin DOMAIN Functions
                 THEN [st1 EXCEPT !.error = "RuntimeError: program not found"]
                 ELSE TraceAwaits(transition_ids, Tail(awaits), finalize_register_map,
                                  _trace_execution(transition_ids, called_node.name,
                                                   called_node, st1))

\* build_async_order, lines 129-142: the order starts with the last transition
\* id; a fault of the tracer leaves no order.
build_async_order(transition_ids, function_name, call_graph, ann) ==
    LET root_call_graph == Node(Len(transition_ids) - 1, "", call_graph)
        st == _trace_execution(transition_ids, function_name, root_call_graph,
                               [order |-> <<transition_ids[Len(transition_ids)]>>,
                                error |-> NoId, ann |-> ann])
    IN [async_order |-> IF st.error = NoId THEN st.order ELSE <<>>,
        error |-> st.error, ann |-> st.ann]

\* finalize_execute, lines 182-190, for one execution: the order is built and,
\* unless the tracer raised, handed to the instruction interpreter.  The call
\* graph of a function is one object for all transactions that run it.
\* earlier_run.between says another transaction ran on the kept run's call
\* graph since.
finalize_execute_trace ==
    /\ \E c \in DOMAIN TraceCases, tx \in Transactions :
       \E r \in {build_async_order(TransitionIdsOf(tx, TraceCases[c].size),
                                   TraceCases[c].function, TraceCases[c].call_graph,
                                   annotations[c])} :
       \E keep \in BOOLEAN :
          LET run == [case |-> c, tx |-> tx, async_order |-> r.async_order,
                      error |-> r.error, handed |-> (r.error = NoId), between |-> FALSE]
          IN /\ annotations' = [annotations EXCEPT ![c] = r.ann]
             /\ trace_run' = run
             /\ earlier_run' =
                   IF keep THEN run
                   ELSE IF earlier_run.case = c /\ earlier_run.tx # tx
                   THEN [earlier_run EXCEPT !.between = TRUE]
                   ELSE earlier_run
    /\ UNCHANGED <<finalize_vars, response, preview_args, reading, aside>>

TraceNext == finalize_execute_trace

TraceSpec == Init /\ [][TraceNext]_vars

\* ------------------------------------------------------ the preview route
\* primitive_type.loads on the text str() made of an item.
PrimitiveLoads(primitive, text) ==
    primitive = "u8" /\ text = "7"

\* StructPlaintext.loads on an item.
StructLoads(item) == item.json = "object"

\* preview_finalize_route, lines 42-63: the loop over the finalize inputs,
\* from `index` on.  An item that is absent raises inside the try as one that
\* does not load.
RECURSIVE ParseInputs(_, _, _, _)
ParseInputs(finalize_inputs, items, index, values) ==
    IF index >= Len(finalize_inputs)
    THEN [status |-> 0, error |-> NoId, index |-> -1, values |-> values]
    ELSE LET plaintext_type == finalize_inputs[index + 1]
             present == index < Len(items)
         IN IF plaintext_type.type = "Literal"
            THEN IF present /\ PrimitiveLoads(plaintext_type.of, items[index + 1].str)
                 THEN ParseInputs(finalize_inputs, items, index + 1,
                                  Append(values, [plaintext |-> "Literal", of |-> plaintext_type.of,
                                                  value |-> items[index + 1].str]))
                 ELSE [status |-> 400, error |-> "Invalid input for index", index |-> index,
                       values |-> values]
            ELSE IF plaintext_type.type = "Struct"
            THEN IF present /\ StructLoads(items[index + 1])
                 THEN ParseInputs(finalize_inputs, items, index + 1,
                                  Append(values, [plaintext |-> "Struct", of |-> plaintext_type.of,
                                                  value |-> items[index + 1].str]))
                 ELSE [status |-> 400, error |-> "Invalid input for index", index |-> index,
                       values |-> values]
            ELSE [status |-> 500, error |-> "Unknown input type", index |-> -1, values |-> values]

\* preview_finalize_route, lines 20-38: the checks before the inputs are looked at.
CheckRequest(req) ==
    IF req.program_id = NoId THEN [status |-> 400, error |-> "Missing program_id"]
    ELSE IF req.transition_name = NoId THEN [status |-> 400, error |-> "Missing transition_name"]
    ELSE IF req.inputs.json = "null" THEN [status |-> 400, error |-> "Missing inputs"]
    ELSE IF req.inputs.json # "array" THEN [status |-> 400, error |-> "Inputs must be an array"]
    ELSE IF req.program_id \notin StoredPrograms THEN [status |-> 404, error |-> "Program not found"]
    ELSE IF req.transition_name \notin DOMAIN PreviewFunctions
    THEN [status |-> 404, error |-> "Transition not found"]
    ELSE IF ~PreviewFunctions[req.transition_name].finalize
    THEN [status |-> 400, error |-> "Transition does not have a finalizer"]
    ELSE [status |-> 0, error |-> NoId]

\* The request gets as far as line 65.
Executes(req) ==
    /\ CheckRequest(req).status = 0
    /\ ParseInputs(PreviewFunctions[req.transition_name].inputs, req.inputs.items, 0, <<>>).status = 0

\* One call of execute_finalizer made for a preview: `shared` says the
\* process-wide cache itself is handed over as mapping_cache.
CallForPreview(shared, allow_state_change, global_mapping_cache, st, values, out) ==
    LET mc == IF shared THEN global_mapping_cache ELSE EmptyCache
        r == execute_finalizer(mc, NoLocal, allow_state_change, st, out, "preview")
    IN [args |-> [pending |-> NoRequest, called |-> TRUE, mapping_cache |-> mc, local_mapping_cache |-> NoLocal,
                  allow_state_change |-> allow_state_change, execute_await |-> TRUE,
                  inputs |-> values, error |-> r.error, result |-> r.result],
        instruction |-> r.instruction,
        global_mapping_cache |-> IF shared THEN r.mapping_cache ELSE global_mapping_cache]

\* The preview run on the process-wide cache, with state changes permitted.
preview_finalize_execution_Shared(global_mapping_cache, st, values, out) ==
    CallForPreview(TRUE, TRUE, global_mapping_cache, st, values, out)

\* preview_finalize_execution, lines 331-346: mapping_cache={},
\* local_mapping_cache={}, allow_state_change=False, execute_await=True.
preview_finalize_execution(global_mapping_cache, st, values, out) ==
    CallForPreview(FALSE, FALSE, global_mapping_cache, st, values, out)

\* preview_finalize_route, lines 72-91: what the route raises for an operation
\* that is not an UpdateKeyValue.
RouteFault(type) ==
    IF type = "RemoveKeyValue" THEN "NotImplementedError"
    ELSE IF type \in {"InitializeMapping", "InsertKeyValue", "RemoveMapping"}
    THEN "RuntimeError: should not be returned"
    ELSE "RuntimeError: Unknown operation type"

\* preview_finalize_route, lines 77-85: the entry listed for an UpdateKeyValue.
Upd(operation) ==
    [type |-> operation.type, mapping_id |-> operation.mapping_id,
     key_id |-> operation.key_id, value_id |-> operation.value_id]

\* The listing that leaves out what is not an UpdateKeyValue.
MappingUpdates_SkipOthers(result) ==
    [raised |-> NoId,
     updates |-> [i \in 1..Cardinality({j \in 1..Len(result) : result[j].type = "UpdateKeyValue"}) |->
                     Upd(result[CHOOSE j \in 1..Len(result) :
                            /\ result[j].type = "UpdateKeyValue"
                            /\ Cardinality({k \in 1..j : result[k].type = "UpdateKeyValue"}) = i])]]

\* preview_finalize_route, lines 68-92: the loop over the returned operations.
MappingUpdates(result) ==
    LET others_at == {i \in 1..Len(result) : result[i].type # "UpdateKeyValue"}
    IN IF others_at = {}
       THEN [raised |-> NoId, updates |-> [i \in 1..Len(result) |-> Upd(result[i])]]
       ELSE [raised |-> RouteFault(result[CHOOSE i \in others_at : \A j \in others_at : i <= j].type),
             updates |-> <<>>]

\* preview_finalize_route, lines 13-93, for one request: the response, what
\* the interpreter was handed, and the process-wide cache afterwards.
RouteResult(req, global_mapping_cache, st, out) ==
    LET checked == CheckRequest(req)
        fails(status, error, index) ==
            [response |-> [NoResponse EXCEPT !.request = req, !.status = status,
                                             !.error = error, !.index = index],
             args |-> NoArgs, cache |-> global_mapping_cache]
    IN IF checked.status # 0 THEN fails(checked.status, checked.error, -1)
       ELSE LET parsed == ParseInputs(PreviewFunctions[req.transition_name].inputs,
                                      req.inputs.items, 0, <<>>)
            IN IF parsed.status # 0 THEN fails(parsed.status, parsed.error, parsed.index)
               ELSE LET call == preview_finalize_execution(global_mapping_cache, st,
                                                           parsed.values, out)
                        listing == MappingUpdates(call.args.result)
                    IN [response |->
                           IF call.args.error # NoId
                           THEN [NoResponse EXCEPT !.request = req, !.status = 400,
                                    !.error = "Execution error on instruction",
                                    !.instruction = call.instruction]
                           ELSE IF listing.raised # NoId
                           THEN [NoResponse EXCEPT !.request = req, !.raised = listing.raised]
                           ELSE [NoResponse EXCEPT !.request = req, !.status = 200,
                                    !.mapping_updates = listing.updates],
                        args |-> call.args,
                        cache |-> call.global_mapping_cache]

\* preview_finalize_route, line 16: a request body has been read; there is no
\* response to it yet.
preview_finalize_route_request ==
    /\ preview_args.pending = NoRequest
    /\ \E req \in Requests :
          /\ response' = NoResponse
          /\ preview_args' = [NoArgs EXCEPT !.pending = req]
    /\ UNCHANGED <<finalize_vars, annotations, trace_run, earlier_run, reading, aside>>

\* preview_finalize_route, lines 17-93: the request is answered.
preview_finalize_route ==
    /\ preview_args.pending # NoRequest
    /\ \E out \in (IF Executes(preview_args.pending) THEN PreviewOutcomes ELSE {NoOutcome}) :
       \E r \in {RouteResult(preview_args.pending, cache, storage, out)} :
          /\ response' = r.response
          /\ preview_args' = r.args
          /\ cache' = r.cache
    /\ UNCHANGED <<storage, pc, reject_reasons, fault, ct, operations, reject_reason,
                   local, calls, caught, expected, applied>>
    /\ UNCHANGED <<annotations, trace_run, earlier_run, reading, aside>>

\* What the preview route can find: nothing committed and nothing cached, or a
\* committed value, in the cache too or after a restart.
PreviewStates ==
    LET committed == [m \in MappingIds |-> IF m = "m1" THEN [EmptyKV EXCEPT !["k1"] = "v1"]
                                           ELSE EmptyKV]
    IN {[storage |-> [m \in MappingIds |-> EmptyKV], cache |-> EmptyCache],
        [storage |-> committed, cache |-> mapping_cache_read(EmptyCache, committed, "m1")],
        [storage |-> committed, cache |-> EmptyCache]}

PreviewInit ==
    /\ \E s \in PreviewStates : storage = s.storage /\ cache = s.cache
    /\ pc = "idle"
    /\ reject_reasons = <<>>
    /\ fault = NoId
    /\ ct = NoTx
    /\ operations = <<>>
    /\ reject_reason = NoReason
    /\ local = NoLocal
    /\ calls = <<>>
    /\ caught = NoError
    /\ expected = <<>>
    /\ applied = <<>>
    /\ annotations = [c \in DOMAIN TraceCases |-> NoAnnotations]
    /\ trace_run = NoRun
    /\ earlier_run = NoRun
    /\ response = NoResponse
    /\ preview_args = NoArgs
    /\ reading = NotReading
    /\ fee_run = NoFeeRun
    /\ lookup = NoLookup
    /\ builtin = NoBuiltin
    /\ blocks = NoBlocks

PreviewNext ==
    \/ preview_finalize_route_request
    \/ preview_finalize_route

PreviewSpec == PreviewInit /\ [][PreviewNext]_vars

\* ---------------------------------------------------- _execute_public_fee
\* load_input_from_arguments, lines 69-78: one value per argument, in order.
load_input_from_arguments(arguments) ==
    [i \in 1..Len(arguments) |->
        IF arguments[i] = "PlaintextArgument" THEN "PlaintextValue" ELSE "FutureValue"]

\* _execute_public_fee, lines 34-36: what execute_finalizer is handed.
FeeCallArguments(t) ==
    [transition_ids |-> <<t.id>>, rejected |-> {}, program |-> t.future.program_id,
     function_name |-> t.future.function_name,
     inputs |-> load_input_from_arguments(t.future.arguments)]

\* _execute_public_fee, lines 18-36, run for one fee transition on the
\* process-wide cache.
execute_public_fee ==
    /\ \E t \in FeeCases, allow_state_change \in BOOLEAN :
       \E out \in FeeOutcomes(t.fee) :
       \E r \in {_execute_public_fee(t.fee, cache, NoLocal, allow_state_change, storage,
                                       out, "fee")} :
          /\ fee_run' = [transition |-> t, called |-> r.called,
                         invocations |-> IF r.called THEN 1 ELSE 0,
                         arguments |-> IF r.called THEN FeeCallArguments(t) ELSE NoFeeArguments,
                         allow_state_change |-> allow_state_change, error |-> r.error]
          /\ cache' = r.mapping_cache
    /\ UNCHANGED <<storage, pc, reject_reasons, fault, ct, operations, reject_reason,
                   local, calls, caught, expected, applied>>
    /\ UNCHANGED <<annotations, trace_run, earlier_run, response, preview_args, reading,
                   lookup, builtin, blocks>>

FeeNext == execute_public_fee

FeeSpec == Init /\ [][FeeNext]_vars

\* ------------------------------------------------------- get_mapping_value
\* The lookup that reads the mapping from the database every time.
LoadAlways(c, st, m) ==
    [cache |-> [c EXCEPT ![m] = [in |-> TRUE, kv |-> st[m]]], read |-> TRUE]

\* get_mapping_value, lines 307-308: the mapping is read from the database
\* only when the process-wide cache does not hold it.
LoadOnMiss(c, st, m) ==
    IF c[m].in THEN [cache |-> c, read |-> FALSE]
    ELSE [cache |-> mapping_cache_read(c, st, m), read |-> TRUE]

\* get_mapping_value, lines 304-329, for one mapping and key.  `stored` is
\* what db.get_program finds for a program global_program_cache does not
\* hold.  Mappings hold plaintext values, so line 328 raises for none.
get_mapping_value_lookup ==
    /\ \E m \in MappingIds, key \in KeyIds, stored \in BOOLEAN :
          LET decl == LookupMappings[m]
              loaded == LoadOnMiss(cache, storage, m)
              known == decl.program_id \in lookup.program_cache
              outcome == IF ~known /\ ~stored THEN "RuntimeError: program not found"
                         ELSE IF ~decl.key_literal THEN "TypeError: unsupported key type"
                         ELSE IF loaded.cache[m].kv[key] = NoId THEN "ExecuteError"
                         ELSE "value"
          IN /\ cache' = loaded.cache
             /\ lookup' = [seq |-> 1 - lookup.seq, mapping_id |-> m, key_id |-> key,
                           read |-> loaded.read, outcome |-> outcome,
                           value |-> IF outcome = "value" THEN loaded.cache[m].kv[key]
                                     ELSE NoId,
                           program_cache |->
                               IF known \/ ~stored THEN lookup.program_cache
                               ELSE lookup.program_cache \cup {decl.program_id}]
    /\ UNCHANGED <<storage, pc, reject_reasons, fault, ct, operations, reject_reason,
                   local, calls, caught, expected, applied>>
    /\ UNCHANGED <<annotations, trace_run, earlier_run, response, preview_args, reading,
                   fee_run, builtin, blocks>>

\* finalize_block, line 266: global_mapping_cache.clear().
global_mapping_cache_clear ==
    /\ cache # EmptyCache
    /\ cache' = EmptyCache
    /\ UNCHANGED <<storage, pc, reject_reasons, fault, ct, operations, reject_reason,
                   local, calls, caught, expected, applied>>
    /\ UNCHANGED others

\* What a lookup can find: any committed contents, and a cache that holds
\* nothing, or for some mappings what finalize executions left in it, which
\* need not be what storage holds.
LookupContents == [KeyIds -> {NoId} \cup WrittenValueIds]
LookupCaches ==
    [MappingIds -> {NotCached} \cup {[in |-> TRUE, kv |-> kv] : kv \in LookupContents}]

LookupInit ==
    /\ storage \in [MappingIds -> LookupContents]
    /\ cache \in LookupCaches
    /\ pc = "idle"
    /\ reject_reasons = <<>>
    /\ fault = NoId
    /\ ct = NoTx
    /\ operations = <<>>
    /\ reject_reason = NoReason
    /\ local = NoLocal
    /\ calls = <<>>
    /\ caught = NoError
    /\ expected = <<>>
    /\ applied = <<>>
    /\ annotations = [c \in DOMAIN TraceCases |-> NoAnnotations]
    /\ trace_run = NoRun
    /\ earlier_run = NoRun
    /\ response = NoResponse
    /\ preview_args = NoArgs
    /\ reading = NotReading
    /\ fee_run = NoFeeRun
    /\ lookup = NoLookup
    /\ builtin = NoBuiltin
    /\ blocks = NoBlocks

LookupNext ==
    \/ get_mapping_value_lookup
    \/ global_mapping_cache_clear

LookupSpec == LookupInit /\ [][LookupNext]_vars

\* ---------------------------------------------------- init_builtin_program
\* init_builtin_program, lines 12-16: the loop over the declared mappings.
\* Each mapping is initialized as a builtin mapping and, in the same
\* iteration, the program is saved if the database does not hold it.
RECURSIVE InitializeMappings(_, _, _)
InitializeMappings(db, program_id, mappings) ==
    IF mappings = <<>> THEN db
    ELSE LET db1 == [db EXCEPT !.initialized = @ \cup {<<program_id, Head(mappings)>>}]
             db2 == IF program_id \notin db1.stored
                    THEN [db1 EXCEPT !.stored = @ \cup {program_id},
                                     !.saves[program_id] = @ + 1]
                    ELSE db1
         IN InitializeMappings(db2, program_id, Tail(mappings))

\* init_builtin_program, lines 11-16, called for one builtin program.
init_builtin_program ==
    /\ \E program \in BuiltinPrograms :
          /\ builtin.calls[program.id] < MaxCalls
          /\ builtin' = [InitializeMappings(builtin, program.id, program.mappings)
                            EXCEPT !.last = program.id, !.calls[program.id] = @ + 1]
    /\ UNCHANGED <<storage, cache, pc, reject_reasons, fault, ct, operations,
                   reject_reason, local, calls, caught, expected, applied>>
    /\ UNCHANGED <<annotations, trace_run, earlier_run, response, preview_args, reading,
                   fee_run, lookup, blocks>>

\* The database when the process starts: any of the builtin programs may be
\* stored by an earlier run.
BuiltinInit ==
    /\ storage = [m \in MappingIds |-> EmptyKV]
    /\ cache = EmptyCache
    /\ pc = "idle"
    /\ reject_reasons = <<>>
    /\ fault = NoId
    /\ ct = NoTx
    /\ operations = <<>>
    /\ reject_reason = NoReason
    /\ local = NoLocal
    /\ calls = <<>>
    /\ caught = NoError
    /\ expected = <<>>
    /\ applied = <<>>
    /\ annotations = [c \in DOMAIN TraceCases |-> NoAnnotations]
    /\ trace_run = NoRun
    /\ earlier_run = NoRun
    /\ response = NoResponse
    /\ preview_args = NoArgs
    /\ reading = NotReading
    /\ fee_run = NoFeeRun
    /\ lookup = NoLookup
    /\ \E stored \in SUBSET BuiltinIds : builtin = [NoBuiltin EXCEPT !.stored = stored]
    /\ blocks = NoBlocks

BuiltinNext == init_builtin_program

BuiltinSpec == BuiltinInit /\ [][BuiltinNext]_vars

\* ------------------------------------------------------------- blocks_route
\* math.ceil(a / b) for a >= 0 and b > 0.
Ceil(a, b) == (a + b - 1) \div b

\* The answer of the route with the given status and error.
BlocksError(latest_height, p, status, error) ==
    [NoBlocks EXCEPT !.latest_height = latest_height, !.p = p, !.status = status,
                     !.error = error]

\* blocks_route, lines 110-131: the page is parsed, the latest height read,
\* the page checked against the number of pages, and the window of the page
\* requested from get_blocks_range_fast.
BlocksResponse(latest_height, p) ==
    IF p.given /\ p.text # "number"
    THEN BlocksError(NoHeight, p, 400, "Invalid page")
    ELSE LET page == IF p.given THEN p.value ELSE 1
             total_blocks == latest_height + 1
             total_pages == Ceil(total_blocks, PageSize)
             start == total_blocks - 1 - PageSize * (page - 1)
         IN \* line 122, `if not total_blocks`: true of None and of 0
            IF latest_height = NoHeight \/ latest_height = 0
            THEN BlocksError(latest_height, p, 500, "No blocks found")
            ELSE IF page < 1 \/ page > total_pages
            THEN BlocksError(latest_height, p, 400, "Invalid page")
            ELSE [latest_height |-> latest_height, p |-> p, status |-> 200, error |-> NoId,
                  start |-> start, end |-> start - PageSize,
                  total_blocks |-> total_blocks, total_pages |-> total_pages]

\* One request to blocks_route, on a chain of any height.
blocks_route ==
    /\ \E latest_height \in Heights, p \in PageParams :
          blocks' = BlocksResponse(latest_height, p)
    /\ UNCHANGED <<storage, cache, pc, reject_reasons, fault, ct, operations,
                   reject_reason, local, calls, caught, expected, applied>>
    /\ UNCHANGED <<annotations, trace_run, earlier_run, response, preview_args, reading,
                   fee_run, lookup, builtin>>

BlocksNext == blocks_route

BlocksSpec == Init /\ [][BlocksNext]_vars

\* ------------------------------------------------------------------- claims
\* An expected and an actual operation agree: same kind, same mapping id, and
\* the ids their kind carries.
Agrees(e, o) ==
    /\ e.type = o.type
    /\ e.mapping_id = o.mapping_id
    /\ e.type = "UpdateKeyValue" => (e.key_id = o.key_id /\ e.value_id = o.value_id)
    /\ e.type = "RemoveKeyValue" => e.key_id = o.key_id

\* The faults with which finalize_block reports that expected and actual diverge.
DivergenceFaults == PairTypeErrors \cup {"TypeError: invalid finalize operation length"}

FeeCalls == {i \in 1..Len(calls) : calls[i].scope = "fee"}

\* C1: execute_operations runs for a transaction only after its expected and
\* actual lists were found equally long with every pair passing the check; when
\* a check fails nothing of the transaction is applied.
C1_ApplyOnlyAfterValidation ==
    /\ (pc = "applied" \/ applied # <<>>) =>
          /\ Len(expected) = Len(operations)
          /\ \A i \in 1..Len(operations) : Agrees(expected[i], operations[i])
          /\ \A i \in 1..Len(applied) : applied[i] = operations[i]
    /\ (pc = "raised" /\ fault \in DivergenceFaults) => applied = <<>>

C1_Witness ==
    /\ pc = "applied"
    /\ Len(applied) = 2
    /\ applied[1].by = "execute"
    /\ applied[2].by = "fee"

\* C2: every operation applied to storage agrees with the expected operation at
\* its position: kind and mapping id, key id and value id for UpdateKeyValue,
\* key id for RemoveKeyValue.
C2_AppliedAgreesWithExpected ==
    \A i \in 1..Len(applied) :
        /\ i <= Len(expected)
        /\ expected[i].type = applied[i].type
        /\ expected[i].mapping_id = applied[i].mapping_id
        /\ applied[i].type = "UpdateKeyValue" =>
              /\ expected[i].key_id = applied[i].key_id
              /\ expected[i].value_id = applied[i].value_id
        /\ applied[i].type = "RemoveKeyValue" => expected[i].key_id = applied[i].key_id

C2_Witness ==
    /\ pc = "applied"
    /\ \E i \in 1..Len(applied) : applied[i].type = "UpdateKeyValue"
    /\ \E i \in 1..Len(applied) : applied[i].type = "RemoveKeyValue"

\* C3: whenever finalize_block aborts because expected and actual operations
\* diverge (in length or in a pair), the shared mapping cache is empty when the
\* fault reaches the caller.
C3_CacheEmptyOnDivergence ==
    (pc = "raised" /\ fault \in DivergenceFaults) => cache = EmptyCache

\* C4: after a transaction's validated operations were applied, and when
\* finalize_block returns, every cached mapping holds exactly the contents
\* committed storage holds for it.
C4_CacheMatchesStorage ==
    pc \in {"applied", "returned"} =>
        \A m \in MappingIds : cache[m].in => cache[m].kv = storage[m]

\* C5: an ExecuteError of the primary finalize of an accepted execute aborts
\* finalize_block: the transaction is not committed and finalize_block does not
\* return a reason list.
C5_AcceptedFaultAborts ==
    ~ /\ ct.type = "AcceptedExecute"
      /\ reject_reason.kind = "execute error at transition"
      /\ pc \in {"applied", "returned"}

\* The interpreter calls of the current transaction for its execution.
ExecuteCalls == {i \in 1..Len(calls) : calls[i].scope = "execute"}

\* C6: the primary finalize of a rejected execute runs with state changes
\* suppressed and a new empty local cache; no operation it produced is in the
\* list finalize_execute returns, is applied to storage, or is written to the
\* shared mapping cache.
C6_RejectedEffectsUnseen ==
    ct.type = "RejectedExecute" =>
        /\ \A i \in ExecuteCalls :
              /\ ~calls[i].allow_state_change
              /\ calls[i].local_empty
              /\ ~calls[i].changed_shared
        /\ pc \in {"validate", "applied", "returned"} =>
              \A i \in 1..Len(operations) : operations[i].by # "execute"
        /\ \A i \in 1..Len(applied) : applied[i].by # "execute"

C6_Witness ==
    /\ pc = "applied"
    /\ ct.type = "RejectedExecute"
    /\ \E i \in ExecuteCalls : calls[i].returned_ops
    /\ applied # <<>>

\* The state in which finalize_execute returns for a rejected execute whose
\* primary finalize raised an ExecuteError that was caught.
RejectedPrimaryFailed ==
    pc = "validate" /\ ct.type = "RejectedExecute" /\ caught.raised

\* The reason names the first position (from 0) of the transition that carries
\* the fault's id, and the failing instruction.
ReasonNamesFault ==
    /\ reject_reason.kind = "execute error at transition"
    /\ reject_reason.instruction = caught.instruction
    /\ reject_reason.index \in 0..(Len(caught.transitions) - 1)
    /\ caught.transitions[reject_reason.index + 1] = caught.transition_id
    /\ \A j \in 1..reject_reason.index : caught.transitions[j] # caught.transition_id

\* C7, as stated: when the primary finalize of a rejected execute fails with an
\* execution fault, finalize_execute returns an empty operation list and a
\* reason naming the failing transition's position and the instruction.
C7_EmptyListOnPrimaryFault ==
    RejectedPrimaryFailed => (operations = <<>> /\ ReasonNamesFault)

\* C7, amended: when the primary finalize of a rejected execute fails with an
\* execution fault, the list finalize_execute returns holds only the operations
\* of the final fee step (none when the fee is private), and the reason names
\* the failing transition's position and the instruction.
C7_OnlyFeeOpsOnPrimaryFault ==
    RejectedPrimaryFailed =>
        /\ \A i \in 1..Len(operations) : operations[i].by = "fee"
        /\ ct.fee = "fee_private" => operations = <<>>
        /\ ReasonNamesFault

C7_Witness ==
    /\ RejectedPrimaryFailed
    /\ reject_reason.index = 1
    /\ operations # <<>>

\* The first interpreter call for the fee: the probe, on the path of a rejected
\* execute whose primary finalize gave no reason.
FirstFeeCall == calls[CHOOSE i \in FeeCalls : \A j \in FeeCalls : i <= j]

\* C8: for a rejected execute whose primary finalize succeeded or had nothing
\* to run, the public fee is run as a probe: its ExecuteError becomes the
\* reason, otherwise (or when the fee is private) the reason is "unknown
\* reason"; the operations collected so far are discarded in every case.
C8_ProbeReasonAndDiscard ==
    (ct.type = "RejectedExecute" /\ ~caught.raised /\ pc \in {"fee", "validate"}) =>
        /\ pc = "fee" => operations = <<>>
        /\ \A i \in 1..Len(operations) : operations[i].by = "fee"
        /\ ct.fee = "fee_private" => (FeeCalls = {} /\ reject_reason = UnknownReason)
        /\ ct.fee = "fee_public" =>
              /\ FeeCalls # {}
              /\ reject_reason = IF FirstFeeCall.raised
                                 THEN FeeReason(FirstFeeCall.instruction)
                                 ELSE UnknownReason

C8_Witness ==
    /\ pc = "fee"
    /\ ct.type = "RejectedExecute"
    /\ \E i \in ExecuteCalls : calls[i].returned_ops
    /\ reject_reason.kind = "execute error at fee transition"

\* C9, as stated: within one transaction the fee's finalize scope is handed to
\* the interpreter at most once.
C9_FeeHandedOverOnce == Cardinality(FeeCalls) <= 1

\* C9, amended: within one transaction the fee's finalize scope is handed to
\* the interpreter at most once with state changes permitted, and at most
\* twice in all; it is handed over twice exactly on the path of a rejected
\* execute whose public fee was probed, first with state changes suppressed;
\* the fee step at the end runs for every public fee, with state changes
\* permitted.
C9_FeeStepOnceWithStateChange ==
    /\ Cardinality({i \in FeeCalls : calls[i].allow_state_change}) <= 1
    /\ Cardinality(FeeCalls) <= 2
    /\ Cardinality(FeeCalls) = 2 =>
          /\ ct.type = "RejectedExecute"
          /\ ~caught.raised
          /\ ~FirstFeeCall.allow_state_change
    /\ ct.fee # "fee_public" => FeeCalls = {}
    /\ (pc = "validate" /\ ct.fee = "fee_public") =>
          /\ calls[Len(calls)].scope = "fee"
          /\ calls[Len(calls)].allow_state_change
          /\ (ct.type = "RejectedExecute" /\ ~caught.raised) => Cardinality(FeeCalls) = 2

C9_Witness ==
    /\ pc = "validate"
    /\ Cardinality(FeeCalls) = 2
    /\ calls[Len(calls)].returned_ops

\* C10: an accepted deploy returns the public-fee operations (none for a
\* private fee) followed by one InitializeMapping per mapping of the program,
\* in declaration order, and nothing else; a rejected deploy returns the fee
\* operations only.
C10_DeployOperations ==
    (pc = "validate" /\ ct.type \in {"AcceptedDeploy", "RejectedDeploy"}) =>
        LET n == IF ct.type = "AcceptedDeploy" THEN Len(ct.mappings) ELSE 0
            k == Len(operations) - n
        IN /\ k >= 0
           /\ ct.fee = "fee_private" => k = 0
           /\ k > 0 => (FeeCalls # {} /\ FirstFeeCall.returned_ops)
           /\ \A i \in 1..k : operations[i].by = "fee"
           /\ \A j \in 1..n :
                 operations[k + j] =
                    [type |-> "InitializeMapping", mapping_id |-> ct.mappings[j],
                     key_id |-> NoId, value_id |-> NoId, by |-> "deploy"]

C10_Witness ==
    /\ pc = "validate"
    /\ ct.type = "AcceptedDeploy"
    /\ ct.mappings = <<"m2", "m1">>
    /\ Len(operations) = 3
    /\ operations[1].by = "fee"

\* The step in which finalize_block finishes a transaction (line 270), and the
\* step in which it is called.
FinishesTransaction == pc = "validate" /\ pc' = "applied"
IsCalled == pc \in {"idle", "returned", "raised"} /\ pc' = "loop"

\* C11: the list finalize_block returns has one entry per transaction of the
\* block, entry i being the reason computed for the i-th transaction: every
\* finished transaction appends its reason, nothing else changes the list
\* during a call, and the list is returned as it stands.
C11_OneReasonPerTransaction ==
    [][/\ FinishesTransaction => reject_reasons' = Append(reject_reasons, reject_reason)
       /\ reject_reasons' # reject_reasons =>
             (FinishesTransaction \/ (IsCalled /\ reject_reasons' = <<>>))
       /\ pc' = "returned" => reject_reasons' = reject_reasons]_vars

C11_Witness ==
    /\ pc = "returned"
    /\ Len(reject_reasons) = 2
    /\ reject_reasons[1] = NoReason
    /\ reject_reasons[2] = UnknownReason

\* The last run of the tracer returned an order.
Traced == trace_run.case # NoId /\ trace_run.error = NoId

\* C12: the order build_async_order returns begins with the outermost (last)
\* transition id, and the awaited children follow in the order of the await
\* commands of the finalize body: for p/main, which calls a/f then b/g and
\* awaits b/g first, the order is p/main, b/g, a/f, and a/f's own child c/h.
C12_AwaitOrder ==
    Traced =>
        LET tx == trace_run.tx
            size == TraceCases[trace_run.case].size
        IN /\ trace_run.async_order # <<>>
           /\ trace_run.async_order[1] = <<tx, size>>
           /\ trace_run.case = "p" =>
                 trace_run.async_order = <<<<tx, 4>>, <<tx, 3>>, <<tx, 2>>, <<tx, 1>>>>
           /\ trace_run.case = "q" => trace_run.async_order = <<<<tx, 3>>, <<tx, 2>>>>
           /\ trace_run.case \in {"w", "b"} => trace_run.async_order = <<<<tx, 1>>>>

C12_Witness == Traced /\ trace_run.case = "p" /\ Len(trace_run.async_order) = 4

\* What a run returns on a call graph no transaction has annotated.
FreshRun(c, tx) ==
    build_async_order(TransitionIdsOf(tx, TraceCases[c].size), TraceCases[c].function,
                      TraceCases[c].call_graph, NoAnnotations)

\* C13: build_async_order is idempotent: a run for the same function and
\* transition ids returns what the earlier run returned, also when another
\* transaction was traced on the same call-graph nodes in between; the result
\* is the one a call graph without annotations gives.
C13_TraceIdempotent ==
    /\ trace_run.case # NoId =>
          /\ trace_run.async_order = FreshRun(trace_run.case, trace_run.tx).async_order
          /\ trace_run.error = FreshRun(trace_run.case, trace_run.tx).error
    /\ (earlier_run.case = trace_run.case /\ earlier_run.tx = trace_run.tx) =>
          /\ earlier_run.async_order = trace_run.async_order
          /\ earlier_run.error = trace_run.error

C13_Witness ==
    /\ Traced
    /\ trace_run.case = "p"
    /\ earlier_run.case = "p"
    /\ earlier_run.tx = trace_run.tx
    /\ earlier_run.between

\* C14: an await that names a register which resolves to no call node makes
\* the tracer fail with "invalid await command": build_async_order returns no
\* order and the instruction interpreter is not called for the transaction;
\* every fault of the tracer leaves finalize_execute the same way.
C14_UnresolvedAwaitFails ==
    /\ trace_run.case = "u" =>
          /\ trace_run.error = "RuntimeError: invalid await command"
          /\ trace_run.async_order = <<>>
          /\ ~trace_run.handed
    /\ (trace_run.case # NoId /\ trace_run.error # NoId) =>
          (trace_run.async_order = <<>> /\ ~trace_run.handed)

C14_Witness ==
    /\ trace_run.case = "u"
    /\ trace_run.error = "RuntimeError: invalid await command"
    /\ annotations["u"][0] = <<trace_run.tx, 1>>

\* The mapping writes among the operations applied for the transaction.
AppliedWrites ==
    {i \in 1..Len(applied) : applied[i].type \in {"UpdateKeyValue", "RemoveKeyValue"}}

\* The shared cache holds, for every key the applied operations wrote, the
\* value storage holds.
AppliedWritesCached ==
    \A i \in AppliedWrites :
       /\ cache[applied[i].mapping_id].in
       /\ cache[applied[i].mapping_id].kv[applied[i].key_id]
             = storage[applied[i].mapping_id][applied[i].key_id]

\* C15: the transactions of a block are finalized one at a time, in block
\* order: a transaction is taken up only at the head of the loop, which is
\* reached only by the call or after the previous transaction was executed,
\* validated and applied; the shared cache then holds the previous
\* transaction's mapping writes and is handed on unchanged.
C15_OneAtATime ==
    [][/\ pc' = "applied" => AppliedWritesCached'
       /\ (pc' = "loop" /\ pc # "loop") =>
             \/ IsCalled
             \/ /\ pc = "applied"
                /\ Len(reject_reasons) > 0
                /\ UNCHANGED <<cache, storage, reject_reasons>>
       /\ (ct' # ct /\ ct' # NoTx) => (pc = "loop" /\ applied = <<>> /\ calls = <<>>)
       /\ (calls' # calls /\ calls' # <<>>) => ct' # NoTx]_vars

C15_Witness ==
    /\ pc \in {"fee", "fee_probe", "validate"}
    /\ Len(reject_reasons) = 1
    /\ calls # <<>>
    /\ cache["m1"].in
    /\ cache["m1"].kv["k1"] = "v1"
    /\ storage["m1"]["k1"] = "v1"

\* C16: a fault while a transaction is finalized stops the block: the fault
\* is what the caller gets, the transaction is not applied and its reason is
\* not recorded, storage keeps what the earlier transactions applied, and no
\* further transaction is taken up until finalize_block is called again.
C16_FaultStopsBlock ==
    [][/\ fault' # NoId => pc' = "raised"
       /\ (pc' = "raised" /\ pc # "raised") =>
             (fault' # NoId /\ UNCHANGED <<storage, reject_reasons>>)
       /\ pc = "raised" =>
             \/ (pc' = "raised" /\ UNCHANGED <<storage, reject_reasons, fault>>)
             \/ IsCalled]_vars

C16_Witness ==
    /\ pc = "raised"
    /\ fault # NoId
    /\ Len(reject_reasons) = 1
    /\ storage["m1"]["k1"] = "v1"
    /\ calls # <<>>

\* finalize_block is between its call and its return or fault.
Running == pc \notin {"idle", "returned", "raised"}

\* get_mapping_value stores what it read over an entry that is in the cache
\* and holds something else by now.
StoresOverEntry ==
    /\ reading # NotReading
    /\ reading' = NotReading
    /\ cache[reading.mapping_id].in
    /\ cache[reading.mapping_id].kv # reading.kv

\* C17: the process-wide mapping cache is written only by finalize_block, and
\* an entry a finalize execution updated is never replaced by contents read
\* from storage earlier.
C17_OnlyFinalizeWritesCache ==
    [][/\ cache' # cache => (Running /\ reading' = reading)
       /\ ~StoresOverEntry]_vars

\* C17, its last part alone: get_mapping_value never stores over an entry.
C17_NoStaleSnapshot == [][~StoresOverEntry]_vars

\* C18: preview_finalize_execution leaves the process-wide mapping cache and
\* storage as they are: the interpreter is handed two empty caches of its own
\* with state changes disallowed, and no step of the preview writes storage
\* or the cache, whatever the interpreter returned or raised.
C18_PreviewLeavesStateAlone ==
    /\ [](preview_args.called =>
             /\ preview_args.mapping_cache = EmptyCache
             /\ preview_args.local_mapping_cache = [alias |-> FALSE, c |-> EmptyCache]
             /\ ~preview_args.allow_state_change)
    /\ [][storage' = storage /\ cache' = cache]_vars

C18_Witness ==
    /\ preview_args.called
    /\ Len(preview_args.result) = 2
    /\ preview_args.result[1].type = "UpdateKeyValue"
    /\ preview_args.result[1].key_id = "k1"
    /\ storage["m1"]["k1"] = "v1"
    /\ cache = EmptyCache

\* The kinds of the operations the preview execution returned.
ReturnedOthers ==
    {i \in 1..Len(preview_args.result) : preview_args.result[i].type # "UpdateKeyValue"}

\* C19: a successful response of the preview route lists only UpdateKeyValue
\* operations, one per operation the preview execution returned, in the same
\* order; when the execution returned an operation of another kind the route
\* raises and there is no listing.
C19_OnlyUpdatesListed ==
    /\ response.status = 200 =>
          /\ preview_args.called
          /\ ReturnedOthers = {}
          /\ Len(response.mapping_updates) = Len(preview_args.result)
          /\ \A i \in 1..Len(response.mapping_updates) :
                /\ response.mapping_updates[i].type = "UpdateKeyValue"
                /\ response.mapping_updates[i].mapping_id = preview_args.result[i].mapping_id
                /\ response.mapping_updates[i].key_id = preview_args.result[i].key_id
                /\ response.mapping_updates[i].value_id = preview_args.result[i].value_id
    /\ (preview_args.called /\ preview_args.error = NoId /\ ReturnedOthers # {}) =>
          /\ response.raised # NoId
          /\ response.status = 0
          /\ response.mapping_updates = <<>>

C19_Witness ==
    /\ response.status = 200
    /\ Len(response.mapping_updates) = 2
    /\ response.mapping_updates[1].key_id = "k2"
    /\ response.mapping_updates[2].key_id = "k1"

\* The item at `index` loads as the finalize input of that index.
ItemLoads(req, index) ==
    LET plaintext_type == PreviewFunctions[req.transition_name].inputs[index + 1]
    IN /\ index < Len(req.inputs.items)
       /\ \/ /\ plaintext_type.type = "Literal"
             /\ PrimitiveLoads(plaintext_type.of, req.inputs.items[index + 1].str)
          \/ /\ plaintext_type.type = "Struct"
             /\ StructLoads(req.inputs.items[index + 1])

\* The item at `index` is absent, or is there and does not load as its type.
ItemAbsentOrBad(req, index) ==
    LET plaintext_type == PreviewFunctions[req.transition_name].inputs[index + 1]
    IN \/ index >= Len(req.inputs.items)
       \/ /\ plaintext_type.type = "Literal"
          /\ ~PrimitiveLoads(plaintext_type.of, req.inputs.items[index + 1].str)
       \/ /\ plaintext_type.type = "Struct"
          /\ ~StructLoads(req.inputs.items[index + 1])

\* The request names a function with a finalizer, and its first input that
\* is absent or does not load is the one at `index`.
FirstInputFault(req, index) ==
    /\ CheckRequest(req).status = 0
    /\ index < Len(PreviewFunctions[req.transition_name].inputs)
    /\ ItemAbsentOrBad(req, index)
    /\ \A j \in 0..(index - 1) : ItemLoads(req, j)

\* C20: when the input at index i is absent, out of range or mistyped for the
\* i-th finalize input, and the inputs before it are valid, the response is a
\* client error (400) that names i, and the preview execution is not invoked.
C20_InputFaultNamesIndex ==
    \A index \in 0..MaxInputs :
       FirstInputFault(response.request, index) =>
          /\ response.status = 400
          /\ response.index = index
          /\ ~preview_args.called

\* C20, for finalize inputs of a literal or a struct type only.
C20_LiteralOrStructFaultNamesIndex ==
    \A index \in 0..MaxInputs :
       (/\ FirstInputFault(response.request, index)
        /\ PreviewFunctions[response.request.transition_name].inputs[index + 1].type
              \in {"Literal", "Struct"}) =>
          /\ response.status = 400
          /\ response.index = index
          /\ ~preview_args.called

\* The fee transition is one of credits.aleo/fee_public whose first output
\* carries a present future.
FeeTransitionWithFuture(ft) ==
    /\ ft.program_id = "credits.aleo"
    /\ ft.function_name = "fee_public"
    /\ ft.output = "future"

\* C21: _execute_public_fee invokes the interpreter only for a transition of
\* credits.aleo/fee_public whose first output carries a present future, and
\* fails with a fault of its own, without invoking it, for any other; when it
\* invokes it, it does so once, with the order [fee transition id], an empty
\* rejected set, and the future's program, function and arguments.
C21_FeeInvocation ==
    /\ fee_run.called =>
          /\ FeeTransitionWithFuture(fee_run.transition.fee)
          /\ fee_run.invocations = 1
          /\ fee_run.arguments.transition_ids = <<fee_run.transition.id>>
          /\ fee_run.arguments.rejected = {}
          /\ fee_run.arguments.program = fee_run.transition.future.program_id
          /\ fee_run.arguments.function_name = fee_run.transition.future.function_name
          /\ Len(fee_run.arguments.inputs) = Len(fee_run.transition.future.arguments)
          /\ \A i \in 1..Len(fee_run.arguments.inputs) :
                fee_run.arguments.inputs[i] = "PlaintextValue"
                   <=> fee_run.transition.future.arguments[i] = "PlaintextArgument"
    /\ (fee_run.transition # NoFeeCase /\ ~FeeTransitionWithFuture(fee_run.transition.fee)) =>
          /\ ~fee_run.called
          /\ fee_run.invocations = 0
          /\ fee_run.error \in {"TypeError: not a fee transition",
                                "TypeError: invalid fee transition output",
                                "RuntimeError: invalid fee transition output"}

C21_Witness ==
    /\ fee_run.called
    /\ Len(fee_run.arguments.inputs) = 2
    /\ fee_run.transition.id = "t2"
    /\ cache["m1"].in

\* C22: the state-changing fee execution of a rejected execute is handed no
\* mapping write of the rejected execution: the local cache it gets holds
\* nothing the primary finalize or the fee diagnostic wrote.
C22_FeeStepSeesNoRejectedWrite ==
    ct.type = "RejectedExecute" =>
        \A i \in FeeCalls : calls[i].allow_state_change => calls[i].local_empty

\* The call nodes a function's finalize awaits, in the order of its await
\* commands.
AwaitedNodes(function_name, node) ==
    LET function == Functions[function_name]
        map == ScanInstructions(function.instructions, node, 0,
                                [r \in Registers |-> NoNode],
                                [l \in Locators |-> NoNode]).map
        awaits == Awaits(function.commands)
    IN IF function.finalize THEN [i \in 1..Len(awaits) |-> map[awaits[i].locator]] ELSE <<>>

\* The depth-first pre-order of the await tree below a call node: the id at the
\* node's position, then the pre-order of each awaited child, child by child.
RECURSIVE PreOrder(_, _, _)
RECURSIVE PreOrderAll(_, _)
PreOrder(transition_ids, function_name, node) ==
    <<transition_ids[node.index + 1]>>
       \o PreOrderAll(transition_ids, AwaitedNodes(function_name, node))
PreOrderAll(transition_ids, nodes) ==
    IF nodes = <<>> THEN <<>>
    ELSE PreOrder(transition_ids, Head(nodes).name, Head(nodes))
            \o PreOrderAll(transition_ids, Tail(nodes))

\* C23: the order build_async_order returns is the depth-first pre-order of
\* the await tree: an awaited child's id and the ids of everything below it
\* stand together, before the id of the next awaited child.
C23_DepthFirstPreOrder ==
    trace_run.handed =>
        LET c == TraceCases[trace_run.case]
            transition_ids == TransitionIdsOf(trace_run.tx, c.size)
        IN trace_run.async_order
              = PreOrder(transition_ids, c.function,
                         Node(Len(transition_ids) - 1, "", c.call_graph))

C23_Witness ==
    /\ trace_run.handed
    /\ trace_run.case = "r"
    /\ trace_run.async_order
          = <<<<trace_run.tx, 4>>, <<trace_run.tx, 2>>, <<trace_run.tx, 1>>, <<trace_run.tx, 3>>>>

\* The call instructions of a function, in program order: each takes one
\* place of the call graph node's calls, with or without a finalize.
CallInstructions(function_name) ==
    SelectSeq(Functions[function_name].instructions, LAMBDA inst : inst.op = "call")

\* The place, among the call instructions, of the call that produced the
\* future the finalize input `locator` holds.
Producer(function_name, locator) ==
    LET calls_made == CallInstructions(function_name)
        register == SelectSeq(Functions[function_name].instructions,
                              LAMBDA inst : inst.op = "async")[1].operands[locator + 1]
    IN CHOOSE j \in 1..Len(calls_made) :
          /\ calls_made[j].destination = register
          /\ Functions[calls_made[j].callee].finalize
          /\ \A k \in (j + 1)..Len(calls_made) :
                ~(calls_made[k].destination = register /\ Functions[calls_made[k].callee].finalize)

\* The awaited futures below a call node in the order they are followed: for
\* each, the call node at the place of the producing call and the function
\* that call names.
RECURSIVE AwaitedBelow(_, _)
RECURSIVE AwaitedBelowAll(_)
AwaitedBelow(function_name, node) ==
    IF ~Functions[function_name].finalize THEN <<>>
    ELSE LET awaits == Awaits(Functions[function_name].commands)
         IN AwaitedBelowAll(
               [i \in 1..Len(awaits) |->
                   LET j == Producer(function_name, awaits[i].locator)
                   IN [node |-> node.calls[j],
                       callee |-> CallInstructions(function_name)[j].callee]])
AwaitedBelowAll(pairs) ==
    IF pairs = <<>> THEN <<>>
    ELSE <<Head(pairs)>> \o AwaitedBelow(Head(pairs).callee, Head(pairs).node)
            \o AwaitedBelowAll(Tail(pairs))

\* Every call of the function to a function with a finalize finds its own
\* name at its place of the call graph node.
NamesAgree(function_name, node) ==
    LET calls_made == CallInstructions(function_name)
    IN \A j \in 1..Len(calls_made) :
          (calls_made[j].callee \in DOMAIN Functions /\ Functions[calls_made[j].callee].finalize)
             => (j <= Len(node.calls) /\ node.calls[j].name = calls_made[j].callee)

C28_OrderOfOwnDistinctIds ==
    trace_run.case # NoId =>
        LET transition_ids == TransitionIdsOf(trace_run.tx, TraceCases[trace_run.case].size)
            async_order == trace_run.async_order
        IN /\ \A k \in 1..Len(async_order) :
                 \E i \in 1..Len(transition_ids) : async_order[k] = transition_ids[i]
           /\ \A j, k \in 1..Len(async_order) : async_order[j] = async_order[k] => j = k

\* A transaction traced on a call graph another transaction has annotated.
C28_Witness ==
    /\ Traced
    /\ trace_run.case = "r"
    /\ Len(trace_run.async_order) = 4
    /\ earlier_run.case = "r"
    /\ earlier_run.tx # trace_run.tx

\* The kinds of operation execute_operations has a case for.
AppliedKinds == {"InitializeMapping", "UpdateKeyValue", "RemoveKeyValue"}

\* What one operation does to storage: an upsert, a removal, or (for the
\* registration of a mapping) nothing to the mapping's contents.
ApplyOne(st, o) ==
    IF o.type = "UpdateKeyValue" THEN [st EXCEPT ![o.mapping_id][o.key_id] = o.value_id]
    ELSE IF o.type = "RemoveKeyValue" THEN [st EXCEPT ![o.mapping_id][o.key_id] = NoId]
    ELSE st

\* Storage after the first n operations of a list, each applied once, the
\* first one first.
RECURSIVE ApplyFirst(_, _, _)
ApplyFirst(st, ops, n) ==
    IF n = 0 THEN st ELSE ApplyOne(ApplyFirst(st, ops, n - 1), ops[n])

\* C25: execute_operations applies the operations of the list one by one in
\* list order, each once, as registration, upsert or removal by kind; a list
\* with an operation of another kind raises NotImplementedError at that
\* operation, with the operations before it applied; and in finalize_block no
\* list with such an operation reaches execute_operations: the validation
\* raises first and storage stays as it is.
C25_AppliesInOrder ==
    [][pc = "validate" =>
          /\ pc' = "applied" =>
                /\ applied' = operations
                /\ storage' = ApplyFirst(storage, operations, Len(operations))
                /\ \A i \in 1..Len(operations) : operations[i].type \in AppliedKinds
          /\ (\E i \in 1..Len(operations) : operations[i].type \notin AppliedKinds) =>
                /\ pc' = "raised"
                /\ storage' = storage
                /\ applied' = applied
          /\ (pc' = "raised" /\ pc' # pc) => (storage' = storage /\ applied' = applied)
          /\ \A i \in 1..Len(operations) :
                (\A j \in 1..(i - 1) : operations[j].type \in AppliedKinds) =>
                   LET r == execute_operations(
                                storage, [operations EXCEPT ![i].type = "RemoveMapping"])
                   IN /\ r.error = "NotImplementedError"
                      /\ r.applied = SubSeq(operations, 1, i - 1)
                      /\ r.storage = ApplyFirst(storage, operations, i - 1)]_vars

\* Two operations on one key were applied, and the later one's value stays.
C25_Witness ==
    /\ pc = "applied"
    /\ \E i, j \in 1..Len(applied) :
          /\ i < j
          /\ applied[i].type = "UpdateKeyValue"
          /\ applied[j].type \in {"UpdateKeyValue", "RemoveKeyValue"}
          /\ applied[i].mapping_id = applied[j].mapping_id
          /\ applied[i].key_id = applied[j].key_id
          /\ applied[i].value_id # applied[j].value_id

\* C27: the reason finalize_block reports for a committed transaction is None
\* exactly when the transaction is accepted: None for every accepted deploy or
\* execute, a reason for every rejected one.
C27_ReasonIffRejected ==
    pc = "applied" =>
        /\ reject_reasons # <<>>
        /\ (reject_reasons[Len(reject_reasons)] = NoReason)
              <=> (ct.type \in {"AcceptedDeploy", "AcceptedExecute"})

\* The part of C27 the code keeps: a committed rejected transaction reports a
\* reason, a committed accepted deploy reports None.
C27_RejectedHasReason ==
    pc = "applied" =>
        /\ ct.type \in {"RejectedDeploy", "RejectedExecute"} =>
              reject_reasons[Len(reject_reasons)] # NoReason
        /\ ct.type = "AcceptedDeploy" => reject_reasons[Len(reject_reasons)] = NoReason

\* C26: get_mapping_value reads a mapping from storage exactly when the cache
\* does not hold it, and leaves it cached: a mapping looked up once is not read
\* again while it stays in the cache, and it leaves the cache only when the
\* whole cache is cleared, after which the next lookup reads it again.  A
\* lookup of an absent key fails with an ExecuteError; it leaves every entry
\* of a cached mapping as it was, and the absent key absent.
C26_ReadOnlyOnMiss ==
    [][/\ lookup'.seq # lookup.seq =>
             LET m == lookup'.mapping_id
                 key == lookup'.key_id
             IN /\ lookup'.read <=> ~cache[m].in
                /\ cache'[m].in
                /\ cache[m].in => cache' = cache
                /\ ~cache[m].in =>
                      cache' = [cache EXCEPT ![m] = [in |-> TRUE, kv |-> storage[m]]]
                /\ lookup'.outcome = "value" =>
                      lookup'.value = (IF cache[m].in THEN cache[m].kv[key]
                                       ELSE storage[m][key])
                /\ (/\ LookupMappings[m].program_id \in lookup'.program_cache
                    /\ LookupMappings[m].key_literal
                    /\ cache'[m].kv[key] = NoId) => lookup'.outcome = "ExecuteError"
                /\ lookup'.outcome = "ExecuteError" =>
                      /\ cache'[m].kv[key] = NoId
                      /\ cache[m].in => cache'[m] = cache[m]
                      /\ \A n \in MappingIds \ {m} : cache'[n] = cache[n]
       /\ \A m \in MappingIds :
             (cache[m].in /\ ~cache'[m].in) => (cache' = EmptyCache /\ lookup' = lookup)
      ]_vars

\* A later lookup of a cached mapping answered from the cache, with a value
\* storage does not hold.
C26_Witness ==
    /\ lookup.outcome = "value"
    /\ ~lookup.read
    /\ lookup.value # storage[lookup.mapping_id][lookup.key_id]

\* C29: after init_builtin_program completed for a program, every declared
\* mapping of the program is initialized as a builtin mapping and the program
\* is stored, whatever the number of its mappings, none included; and over
\* any number of calls the program is saved at most once.
C29_BuiltinProgramStored ==
    /\ \A program \in BuiltinPrograms :
          builtin.calls[program.id] > 0 =>
             /\ \A i \in 1..Len(program.mappings) :
                   <<program.id, program.mappings[i]>> \in builtin.initialized
             /\ program.id \in builtin.stored
    /\ \A i \in BuiltinIds : builtin.saves[i] <= 1

\* The part of C29 the code keeps: the mappings are initialized, a program
\* with a mapping is stored, and no program is saved twice.
C29_ProgramWithMappingStored ==
    /\ \A program \in BuiltinPrograms :
          builtin.calls[program.id] > 0 =>
             /\ \A i \in 1..Len(program.mappings) :
                   <<program.id, program.mappings[i]>> \in builtin.initialized
             /\ program.mappings # <<>> => program.id \in builtin.stored
    /\ \A i \in BuiltinIds : builtin.saves[i] <= 1

\* The number of pages of a chain whose latest height is h: the least n with
\* n pages of 20 holding the h + 1 blocks.
PagesOf(h) == CHOOSE n \in 0..(h + 1) : PageSize * n >= h + 1 /\ PageSize * (n - 1) < h + 1

\* The request named an integer page on a chain that holds a block.
PageAsked ==
    /\ blocks.status # 0
    /\ blocks.latest_height # NoHeight
    /\ blocks.p.text = "number"

\* What C30 says of a request for page `page` on a chain of latest height h.
PageAnswered(h, page) ==
    /\ blocks.status = 200 <=> (1 <= page /\ page <= PagesOf(h))
    /\ blocks.status # 200 => blocks.status = 400
    /\ blocks.status = 200 =>
          /\ blocks.start = h - PageSize * (page - 1)
          /\ blocks.end = blocks.start - PageSize
          /\ \A height \in 0..h :
                \E q \in 1..PagesOf(h) :
                   LET r == BlocksResponse(h, [given |-> TRUE, text |-> "number", value |-> q])
                   IN r.status = 200 /\ r.end < height /\ height <= r.start

\* C30: blocks_route accepts page p exactly when 1 <= p <= ceil((latest_height
\* + 1) / 20), on every chain that holds a block, the chain of latest height
\* 0 included; it answers every other page with 400; and for an accepted page
\* it requests the window that starts at latest_height - 20 * (p - 1), so that
\* the windows of the accepted pages cover every height from latest_height
\* down to 0.
C30_PageBounds ==
    PageAsked =>
        PageAnswered(blocks.latest_height, IF blocks.p.given THEN blocks.p.value ELSE 1)

\* The part of C30 the code keeps: the same on every chain whose latest
\* height is above 0.
C30_PageBoundsAboveGenesis ==
    (PageAsked /\ blocks.latest_height > 0) =>
        PageAnswered(blocks.latest_height, IF blocks.p.given THEN blocks.p.value ELSE 1)

====
